---- MODULE Spec2Model ----
(***************************************************************************)
(* GOTO elimination of bastors (bastors/goto_elimination.py) together with *)
(* the condition algebra of bastors/parse.py.                              *)
(*                                                                         *)
(* A statement is a record with the fields of all node types; a field a    *)
(* node type does not have holds a default and HasAttr tells which fields  *)
(* a node really has.  label 0 stands for None.  Paths hold the 0-based    *)
(* indices of the Python code; Python list operations are the Py...        *)
(* operators below.                                                        *)
(***************************************************************************)
EXTENDS Integers, Sequences, FiniteSets, TLC

\* ------------------------------------------------------------------------
\* Bounds of the model
\* ------------------------------------------------------------------------
MaxNodes == 5
MaxSubNodes == 2
MaxGotos == 2
MaxSize == 6
MaxLets == 1
MaxLoops == 0
MaxCalls == 2
MaxIterations == 7
MaxSteps == 12
MaxTargetSteps == 30
MaxPathLen == 3
MaxIndex == 2
MaxConditions == 2
MaxLines == 3
MaxTempNodes == 4
MaxMoveNodes == 5
MaxFormatConditions == 3

None == 0

\* ------------------------------------------------------------------------
\* parse.ConditionEnum and the condition node types
\* ------------------------------------------------------------------------
INITIAL == "INITIAL"
AND == "AND"
OR == "OR"

Condition(left, operator, right, type) ==
    [cls |-> "Condition", left |-> left, operator |-> operator,
     right |-> right, var |-> <<>>, value |-> "", type |-> type]

VariableCondition(var, type) ==
    [cls |-> "VariableCondition", left |-> <<>>, operator |-> "",
     right |-> 0, var |-> var, value |-> "", type |-> type]

NotVariableCondition(var, type) ==
    [cls |-> "NotVariableCondition", left |-> <<>>, operator |-> "",
     right |-> 0, var |-> var, value |-> "", type |-> type]

TrueFalseCondition(value, type) ==
    [cls |-> "TrueFalseCondition", left |-> <<>>, operator |-> "",
     right |-> 0, var |-> <<>>, value |-> value, type |-> type]

\* ------------------------------------------------------------------------
\* Statement node types
\* ------------------------------------------------------------------------
ArithmeticExpression == [exp |-> "ArithmeticExpression", conditions |-> <<>>]
BooleanExpression(conds) == [exp |-> "BooleanExpression", conditions |-> conds]
NoExp == [exp |-> "", conditions |-> <<>>]

Node(kind, label, conds, stmts, target, lval, rval) ==
    [kind |-> kind, label |-> label, conditions |-> conds,
     statements |-> stmts, target_label |-> target, lval |-> lval,
     rval |-> rval]

If(label, conds, stmts) == Node("If", label, conds, stmts, 0, <<>>, NoExp)
Loop(label, conds, stmts) == Node("Loop", label, conds, stmts, 0, <<>>, NoExp)
Break(label) == Node("Break", label, <<>>, <<>>, 0, <<>>, NoExp)
Goto(label, target) == Node("Goto", label, <<>>, <<>>, target, <<>>, NoExp)
Let(label, lval, rval) == Node("Let", label, <<>>, <<>>, 0, lval, rval)
PrintStmt(label) == Node("Print", label, <<>>, <<>>, 0, <<>>, NoExp)
End(label) == Node("End", label, <<>>, <<>>, 0, <<>>, NoExp)
\* a Python 1-tuple holding one statement: it has none of the attributes
Tuple1(stmt) == Node("tuple", 0, <<>>, <<stmt>>, 0, <<>>, NoExp)

IsBlockStmt(s) == s.kind \in {"If", "Loop"}
HasLabel(s) == s.kind # "tuple"
HasConditions(s) == s.kind \in {"If", "Loop"}

\* ------------------------------------------------------------------------
\* Python list operations (0-based, negative indices count from the end)
\* ------------------------------------------------------------------------
Min(a, b) == IF a < b THEN a ELSE b
Max(a, b) == IF a > b THEN a ELSE b

PyIndexOK(s, i) == i >= 0 - Len(s) /\ i < Len(s)
PyNorm(s, i) == IF i < 0 THEN i + Len(s) ELSE i
PyGet(s, i) == s[PyNorm(s, i) + 1]
\* an assignment to an element that leaves the list as it is
PyNoSet(s, i, x) == s
PySet(s, i, x) == [s EXCEPT ![PyNorm(s, i) + 1] = x]
\* bound of a slice: clamped into 0..len
PyBound(s, i) == IF i < 0 THEN Max(i + Len(s), 0) ELSE Min(i, Len(s))
PySlice(s, a, b) ==
    LET lo == PyBound(s, a)
        hi == PyBound(s, b)
    IN  IF hi <= lo THEN <<>> ELSE SubSeq(s, lo + 1, hi)
\* a del that leaves the list as it is
PyNoDelSlice(s, a, b) == s
PyDelSlice(s, a, b) ==
    LET lo == PyBound(s, a)
        hi == PyBound(s, b)
    IN  IF hi <= lo THEN s ELSE SubSeq(s, 1, lo) \o SubSeq(s, hi + 1, Len(s))
PyInsert(s, i, x) ==
    LET k == PyBound(s, i)
    IN  SubSeq(s, 1, k) \o <<x>> \o SubSeq(s, k + 1, Len(s))
\* a del of an element that leaves the list as it is
PyNoDel(s, i) == s
PyDel(s, i) ==
    LET k == PyNorm(s, i)
    IN  SubSeq(s, 1, k) \o SubSeq(s, k + 2, Len(s))
\* list.index: the first element equal to x, or -1 for ValueError
PyIndexOf(s, x) ==
    IF \E k \in 1..Len(s) : s[k] = x
    THEN (CHOOSE k \in 1..Len(s) : s[k] = x /\ \A j \in 1..(k - 1) : s[j] # x) - 1
    ELSE 0 - 1
\* path[:-1], path[1:], path[:n]
DropLast(p) == IF Len(p) = 0 THEN <<>> ELSE SubSeq(p, 1, Len(p) - 1)
Last(p) == p[Len(p)]
SetLast(p, v) == [p EXCEPT ![Len(p)] = v]

Ok(x) == x.err = ""

\* ------------------------------------------------------------------------
\* Blocks of a context: bp is the list of indices that leads from the
\* context's list down to a block (the list object the Python code holds)
\* ------------------------------------------------------------------------
RECURSIVE BlockAt(_, _)
BlockAt(statements, bp) ==
    IF Len(bp) = 0 THEN statements
    ELSE BlockAt(statements[Head(bp) + 1].statements, Tail(bp))

RECURSIVE SetBlockAt(_, _, _)
SetBlockAt(statements, bp, block) ==
    IF Len(bp) = 0 THEN block
    ELSE [statements EXCEPT ![Head(bp) + 1].statements =
              SetBlockAt(statements[Head(bp) + 1].statements, Tail(bp), block)]

\* get_block: the for loop at index i over path; a statement that is not a
\* block is skipped and the loop goes on in the same list
RECURSIVE get_block_from(_, _, _, _)
get_block_from(statements, path, i, bp) ==
    IF i >= Len(path) THEN [err |-> "", none |-> TRUE, bp |-> <<>>]
    ELSE IF i = Len(path) - 1 THEN [err |-> "", none |-> FALSE, bp |-> bp]
    ELSE IF ~PyIndexOK(statements, path[i + 1])
         THEN [err |-> "IndexError", none |-> TRUE, bp |-> <<>>]
    ELSE LET statement == PyGet(statements, path[i + 1])
         IN  IF IsBlockStmt(statement)
             THEN get_block_from(statement.statements, Tail(path), 0,
                                 Append(bp, PyNorm(statements, path[i + 1])))
             ELSE get_block_from(statements, path, i + 1, bp)

get_block(statements, path) == get_block_from(statements, path, 0, <<>>)

\* GotoLabelPair.__path_in_loop
RECURSIVE path_in_loop_from(_, _, _)
path_in_loop_from(statements, path, i) ==
    IF Len(path) <= 1 \/ i >= Len(path) THEN [err |-> "", val |-> FALSE]
    ELSE IF ~PyIndexOK(statements, path[i + 1])
         THEN [err |-> "IndexError", val |-> FALSE]
    ELSE LET statement == PyGet(statements, path[i + 1])
         IN  IF i = Len(path) - 2
             THEN [err |-> "", val |-> statement.kind = "Loop"]
             ELSE IF IsBlockStmt(statement)
                  THEN path_in_loop_from(statement.statements, Tail(path), 0)
                  ELSE path_in_loop_from(statements, path, i + 1)

path_in_loop(statements, path) == path_in_loop_from(statements, path, 0)

\* ------------------------------------------------------------------------
\* find_goto, convert_to_conditional, find_label, find_pair
\* ------------------------------------------------------------------------
convert_to_conditional(goto, label, index, statements) ==
    [statements EXCEPT ![index + 1] =
        If(label, <<TrueFalseCondition("true", INITIAL)>>, <<goto>>)]

RECURSIVE find_goto_in_ifs(_, _)
\* find_goto without the branch for Loop: the bodies of loops are skipped
find_goto_in_ifs(statements, index) ==
    IF index >= Len(statements)
    THEN [found |-> FALSE, target |-> 0, path |-> <<>>, statements |-> statements]
    ELSE IF statements[index + 1].kind = "Goto"
    THEN IF Len(statements) # 1
         THEN [found |-> TRUE, target |-> statements[index + 1].target_label,
               path |-> <<index>>,
               statements |-> convert_to_conditional(
                   statements[index + 1], statements[index + 1].label, index,
                   statements)]
         ELSE [found |-> TRUE, target |-> statements[index + 1].target_label,
               path |-> <<>>, statements |-> statements]
    ELSE IF statements[index + 1].kind = "If"
            /\ find_goto_in_ifs(statements[index + 1].statements, 0).found
    THEN [found |-> TRUE,
          target |-> find_goto_in_ifs(statements[index + 1].statements, 0).target,
          path |-> <<index>>
                   \o find_goto_in_ifs(statements[index + 1].statements, 0).path,
          statements |->
              [statements EXCEPT ![index + 1].statements =
                   find_goto_in_ifs(statements[index + 1].statements, 0).statements]]
    ELSE find_goto_in_ifs(statements, index + 1)

\* find_goto that wraps the statement at index, whatever it is, and finds
\* no Goto
find_goto_wrap(statements, index) ==
    IF index >= Len(statements)
    THEN [found |-> FALSE, target |-> 0, path |-> <<>>, statements |-> statements]
    ELSE [found |-> FALSE, target |-> 0, path |-> <<>>,
          statements |-> convert_to_conditional(
              statements[index + 1], statements[index + 1].label, index,
              statements)]

RECURSIVE find_goto_from(_, _)
find_goto_from(statements, index) ==
    IF index >= Len(statements)
    THEN [found |-> FALSE, target |-> 0, path |-> <<>>, statements |-> statements]
    ELSE LET statement == statements[index + 1]
         IN  IF statement.kind = "Goto"
             THEN IF Len(statements) # 1
                  THEN [found |-> TRUE, target |-> statement.target_label,
                        path |-> <<index>>,
                        statements |-> convert_to_conditional(
                            statement, statement.label, index, statements)]
                  ELSE [found |-> TRUE, target |-> statement.target_label,
                        path |-> <<>>, statements |-> statements]
             ELSE IF IsBlockStmt(statement)
                  THEN LET r == find_goto_from(statement.statements, 0)
                       IN  IF r.found
                           THEN [found |-> TRUE, target |-> r.target,
                                 path |-> <<index>> \o r.path,
                                 statements |->
                                   [statements EXCEPT ![index + 1].statements =
                                        r.statements]]
                           ELSE find_goto_from(statements, index + 1)
                  ELSE find_goto_from(statements, index + 1)

find_goto(statements) == find_goto_from(statements, 0)

RECURSIVE find_label_from(_, _, _)
find_label_from(target, statements, index) ==
    IF index >= Len(statements)
    THEN [err |-> "", found |-> FALSE, path |-> <<>>]
    ELSE LET statement == statements[index + 1]
         IN  IF ~HasLabel(statement)
             THEN [err |-> "AttributeError", found |-> FALSE, path |-> <<>>]
             ELSE IF target = statement.label
             THEN [err |-> "", found |-> TRUE, path |-> <<index>>]
             ELSE IF IsBlockStmt(statement)
                  THEN LET r == find_label_from(target, statement.statements, 0)
                       IN  IF ~Ok(r) THEN r
                           ELSE IF r.found
                           THEN [err |-> "", found |-> TRUE,
                                 path |-> <<index>> \o r.path]
                           ELSE find_label_from(target, statements, index + 1)
                  ELSE find_label_from(target, statements, index + 1)

find_label(target, statements) == find_label_from(target, statements, 0)

\* a pair: the context's list (after find_goto's wrapping) and the two
\* paths; err is "Exception" if the label of the Goto is not found
find_pair(statements) ==
    LET Result(e, f, g, label_path) ==
            [err |-> e, found |-> f, statements |-> g.statements,
             goto_path |-> g.path, label_path |-> label_path]
        WithLabel(g, l) ==
            IF ~Ok(l) THEN Result(l.err, FALSE, g, <<>>)
            ELSE IF ~l.found THEN Result("Exception", FALSE, g, <<>>)
            ELSE Result("", TRUE, g, l.path)
        WithGoto(g) ==
            IF ~g.found
            THEN [err |-> "", found |-> FALSE, statements |-> statements,
                  goto_path |-> <<>>, label_path |-> <<>>]
            ELSE WithLabel(g, find_label(g.target, g.statements))
    IN  WithGoto(find_goto(statements))

\* ------------------------------------------------------------------------
\* GotoLabelPair.classify
\* ------------------------------------------------------------------------
RECURSIVE before_when_prefix(_, _, _)
\* the walk over the two paths that answers True when the goto path is used
\* up
before_when_prefix(goto_path, label_path, index) ==
    IF index >= Len(goto_path) THEN TRUE
    ELSE IF index >= Len(label_path) THEN TRUE
    ELSE IF goto_path[index + 1] < label_path[index + 1] THEN TRUE
    ELSE IF goto_path[index + 1] > label_path[index + 1] THEN FALSE
    ELSE before_when_prefix(goto_path, label_path, index + 1)

RECURSIVE is_goto_before_label_from(_, _, _)
is_goto_before_label_from(goto_path, label_path, index) ==
    IF index >= Len(goto_path) THEN FALSE
    ELSE IF index >= Len(label_path) THEN TRUE
    ELSE IF goto_path[index + 1] < label_path[index + 1] THEN TRUE
    ELSE IF goto_path[index + 1] > label_path[index + 1] THEN FALSE
    ELSE is_goto_before_label_from(goto_path, label_path, index + 1)

is_goto_before_label(goto_path, label_path) ==
    is_goto_before_label_from(goto_path, label_path, 0)

Prefix(p, n) == SubSeq(p, 1, Min(n, Len(p)))

classify(goto_path, label_path) ==
    LET length_goto_path == Len(goto_path)
        length_label_path == Len(label_path)
        before == is_goto_before_label(goto_path, label_path)
    IN  IF length_goto_path = length_label_path
           /\ (length_goto_path = 1 \/ DropLast(goto_path) = DropLast(label_path))
        THEN IF before THEN "1.1" ELSE "1.2"
        ELSE IF length_label_path - length_goto_path >= 1
                /\ DropLast(Prefix(label_path, length_goto_path)) = DropLast(goto_path)
        THEN IF before THEN "2.1" ELSE "2.2"
        ELSE IF length_goto_path - length_label_path >= 1
                /\ DropLast(Prefix(goto_path, length_label_path)) = DropLast(label_path)
        THEN IF before THEN "3.1" ELSE "3.2"
        ELSE IF before THEN "4.1" ELSE "4.2"

\* ------------------------------------------------------------------------
\* parse.invert_conditions
\* ------------------------------------------------------------------------
\* the table {"<>": "=", "<=": ">", ">=": "<"} in iteration order
table == << <<"<>", "=">>, <<"<=", ">">>, <<">=", "<">> >>

\* the inner for loop: the first entry that matches either side; new_op
\* keeps its earlier value when no entry matches
RECURSIVE invert_operator(_, _, _)
invert_operator(operator, k, new_op) ==
    IF k > Len(table) THEN new_op
    ELSE IF operator = table[k][1] THEN table[k][2]
    ELSE IF operator = table[k][2] THEN table[k][1]
    ELSE invert_operator(operator, k + 1, new_op)

\* the link kept as it is
keep_type(type) == type

invert_type(type) ==
    IF type = AND THEN OR ELSE IF type = OR THEN AND ELSE type

\* the conditions that are not relations (VariableCondition,
\* NotVariableCondition, TrueFalseCondition)
invert_special(cond) ==
    IF cond.cls = "VariableCondition"
    THEN NotVariableCondition(cond.var, invert_type(cond.type))
    ELSE IF cond.cls = "NotVariableCondition"
    THEN VariableCondition(cond.var, invert_type(cond.type))
    ELSE TrueFalseCondition(IF cond.value = "true" THEN "false" ELSE "true",
                            invert_type(cond.type))

RECURSIVE invert_conditions_from(_, _, _)
invert_conditions_from(conditions, i, new_op) ==
    IF i > Len(conditions) THEN <<>>
    ELSE LET cond == conditions[i]
             op == invert_operator(cond.operator, 1, new_op)
         IN  IF cond.cls = "Condition"
             THEN <<Condition(cond.left, op, cond.right, invert_type(cond.type))>>
                  \o invert_conditions_from(conditions, i + 1, op)
             ELSE <<invert_special(cond)>>
                  \o invert_conditions_from(conditions, i + 1, new_op)

invert_conditions(conditions) == invert_conditions_from(conditions, 1, "")

\* ------------------------------------------------------------------------
\* get_temp_name: "t%d" % TEMP_VAR_NUM, a name is a sequence of characters
\* ------------------------------------------------------------------------
Digit == <<"0", "1", "2", "3", "4", "5", "6", "7", "8", "9">>

RECURSIVE FormatDecimal(_)
FormatDecimal(n) ==
    IF n < 10 THEN <<Digit[n + 1]>>
    ELSE FormatDecimal(n \div 10) \o <<Digit[(n % 10) + 1]>>

\* the name of the first temporary, whatever the counter holds
first_temp_name(num) == <<"t">> \o FormatDecimal(1)

get_temp_name(num) == <<"t">> \o FormatDecimal(num + 1)

\* ------------------------------------------------------------------------
\* The state an algorithm works on: the context's list, the two paths of
\* the GotoLabelPair, the global counter, the names issued so far and the
\* exception raised, if any
\* ------------------------------------------------------------------------
Raise(pair, e) == [pair EXCEPT !.err = e]

\* block = get_block(statements, path); stmt = block[path[-1]], given the
\* result gb of get_block
StmtIn(statements, path, gb) ==
    LET Failed(e) ==
            [err |-> e, bp |-> <<>>, block |-> <<>>, stmt |-> Break(None)]
        InBlock(block, i) ==
            IF ~PyIndexOK(block, i) THEN Failed("IndexError")
            ELSE [err |-> "", bp |-> gb.bp, block |-> block,
                  stmt |-> PyGet(block, i)]
    IN  IF ~Ok(gb) THEN Failed(gb.err)
        ELSE IF Len(path) = 0 THEN Failed("IndexError")
        ELSE InBlock(BlockAt(statements, gb.bp), Last(path))

GotoStmtAt(pair) ==
    StmtIn(pair.statements, pair.goto_path,
           get_block(pair.statements, pair.goto_path))

\* GotoLabelPair.goto_temp_var
goto_temp_var(pair) ==
    LET \* block[self.goto_path[-1]] = goto_stmt
        SetGoto(p, gs, block1, g, new_goto) ==
            IF ~PyIndexOK(block1, g + 1)
            THEN Raise([p EXCEPT !.statements = SetBlockAt(@, gs.bp, block1)],
                       "IndexError")
            ELSE [p EXCEPT !.statements =
                     SetBlockAt(@, gs.bp, PySet(block1, g + 1, new_goto))]
        \* the update of the two paths after the insertion of the Let
        Paths(p, gp1) ==
            [p EXCEPT
                !.goto_path = gp1,
                !.label_path = IF Len(gp1) <= Len(@) /\ Last(gp1) < @[Len(gp1)]
                               THEN [@ EXCEPT ![Len(gp1)] = @ + 1]
                               ELSE @]
        NewTemp(gs, temp_name, g) ==
            SetGoto(
                Paths([pair EXCEPT !.TEMP_VAR_NUM = @ + 1,
                                   !.issued = Append(@, temp_name),
                                   !.temp_name = temp_name],
                      SetLast(pair.goto_path, g + 1)),
                gs,
                PyInsert(gs.block, g,
                         Let(None, temp_name,
                             BooleanExpression(gs.stmt.conditions))),
                g,
                If(gs.stmt.label, <<VariableCondition(temp_name, INITIAL)>>,
                   gs.stmt.statements))
        WithGoto(gs) ==
            IF ~Ok(gs) THEN Raise(pair, gs.err)
            ELSE IF ~HasConditions(gs.stmt) THEN Raise(pair, "AttributeError")
            ELSE IF Len(gs.stmt.conditions) = 0 THEN Raise(pair, "IndexError")
            ELSE IF Len(gs.stmt.conditions) > 1
                    \/ gs.stmt.conditions[1].cls # "VariableCondition"
            THEN NewTemp(gs, get_temp_name(pair.TEMP_VAR_NUM),
                         Last(pair.goto_path))
            ELSE [pair EXCEPT !.temp_name = gs.stmt.conditions[1].var]
    IN  WithGoto(GotoStmtAt(pair))

\* ------------------------------------------------------------------------
\* Case 1.1 and case 1.2
\* ------------------------------------------------------------------------
algo_1_1_same_level_same_block__before(pair) ==
    LET Between(gs, g, l, between) ==
            IF Len(between) > 0
            THEN IF ~HasLabel(gs.stmt) \/ ~HasConditions(gs.stmt)
                 THEN Raise(pair, "AttributeError")
                 ELSE [pair EXCEPT !.statements =
                          SetBlockAt(@, gs.bp,
                              PyDelSlice(
                                  PySet(gs.block, g,
                                        If(gs.stmt.label,
                                           invert_conditions(gs.stmt.conditions),
                                           between)),
                                  g + 1, l))]
            ELSE [pair EXCEPT !.statements =
                     SetBlockAt(@, gs.bp, PyDel(gs.block, g))]
        WithGoto(gs) ==
            IF ~Ok(gs) THEN Raise(pair, gs.err)
            ELSE IF Len(pair.label_path) = 0 THEN Raise(pair, "IndexError")
            ELSE Between(gs, Last(pair.goto_path), Last(pair.label_path),
                         PySlice(gs.block, Last(pair.goto_path) + 1,
                                 Last(pair.label_path)))
    IN  WithGoto(GotoStmtAt(pair))

algo_1_2_same_level_same_block__after(pair) ==
    LET \* the paths after the deletion: goto_path[-1] -= len(block[between]) + 1
        Paths(gs, g, l, block2) ==
            [pair EXCEPT
                !.statements = SetBlockAt(@, gs.bp, block2),
                !.goto_path = SetLast(@, g - (Len(PySlice(block2, l, g)) + 1)),
                !.label_path = SetLast(@, l + 1)]
        InLoop(gs, g, l) ==
            IF ~HasConditions(gs.stmt) THEN Raise(pair, "AttributeError")
            ELSE IF ~PyIndexOK(gs.block, l) THEN Raise(pair, "IndexError")
            ELSE Paths(gs, g, l,
                       PyDelSlice(
                           PySet(gs.block, l,
                                 Loop(None, gs.stmt.conditions,
                                      PySlice(gs.block, l, g))),
                           l + 1, g + 1))
        WithGoto(gs) ==
            IF ~Ok(gs) THEN Raise(pair, gs.err)
            ELSE IF Len(pair.label_path) = 0 THEN Raise(pair, "IndexError")
            ELSE InLoop(gs, Last(pair.goto_path), Last(pair.label_path))
    IN  WithGoto(GotoStmtAt(pair))

\* ------------------------------------------------------------------------
\* Case 2.1
\* ------------------------------------------------------------------------
Count(s, x) == Cardinality({k \in 1..Len(s) : s[k] = x})

FalseLet(temp_name) ==
    Let(None, temp_name,
        BooleanExpression(<<TrueFalseCondition("false", INITIAL)>>))

\* Step 3 of case 2.1: the statements between the goto and the child block
\* are put under the inverse of the temporary variable
Step3(block, g, label_block_index, temp_name) ==
    LET Wrap(stmts) ==
            IF Len(stmts) > 0
            THEN PyInsert(PyDelSlice(block, g + 1, label_block_index), g + 1,
                          If(None,
                             invert_conditions(
                                 <<VariableCondition(temp_name, INITIAL)>>),
                             stmts))
            ELSE block
    IN  Wrap(PySlice(block, g + 1, label_block_index))

\* One pass of the while loop of case 2.1 (steps 2 to 5).  label_block is
\* kept as its kind (lb_kind) and, for a Loop, the place of the object: the
\* block lb_bp and the index lb_index in it.  list.index finds the first
\* EQUAL element; the model follows the object and raises ModelLimit if
\* another element of the block is equal to it.
RECURSIVE algo_2_1_loop(_)
algo_2_1_loop(pair) ==
    LET \* Step 5: pair.label_path[:-1] == pair.goto_path[:-1]
        Step5(p) ==
            IF DropLast(p.label_path) = DropLast(p.goto_path) THEN p
            ELSE algo_2_1_loop(p)
        \* pair.label_path[len(pair.goto_path) - 1] += 1
        Churn(p) ==
            IF Len(p.goto_path) - 1 >= Len(p.label_path)
            THEN Raise(p, "IndexError")
            ELSE Step5([p EXCEPT !.label_path[Len(p.goto_path)] = @ + 1])
        \* Step 4: the goto statement becomes the first statement of
        \* label_block, which is at label_block_index of the block
        Move(bp, block, g, new_if, label_block_index) ==
            Churn([pair EXCEPT
                      !.statements =
                          SetBlockAt(@, bp,
                              PyDel(PySet(block, label_block_index,
                                          [new_if EXCEPT !.statements =
                                               <<PyGet(block, g)>> \o @]),
                                    g)),
                      !.goto_path = DropLast(@) \o <<label_block_index - 1, 0>>,
                      !.label_path = [@ EXCEPT ![Len(pair.goto_path)] =
                                          label_block_index - 1],
                      !.lb_kind = "If"])
        \* label_block_index = block.index(label_block)
        Step4(bp, block, g, new_if) ==
            IF Count(block, new_if) = 0
            THEN Raise([pair EXCEPT !.statements = SetBlockAt(@, bp, block)],
                       "ValueError")
            ELSE IF Count(block, new_if) > 1 THEN Raise(pair, "ModelLimit")
            ELSE IF ~PyIndexOK(block, g)
            THEN Raise([pair EXCEPT !.statements = SetBlockAt(@, bp, block)],
                       "IndexError")
            ELSE Move(bp, block, g, new_if, PyIndexOf(block, new_if))
        \* Step 2 for an If: block[block.index(stmt)] = new_if
        ChildIf(bp, block, g, label_block_index, stmt, new_if) ==
            IF PyIndexOf(block, stmt) # PyNorm(block, label_block_index)
            THEN Raise(pair, "ModelLimit")
            ELSE Step4(bp,
                       Step3(PySet(block, label_block_index, new_if), g,
                             label_block_index, pair.temp_name),
                       g, new_if)
        \* Step 2: stmt = block[label_block_index] is a Loop (break), an If,
        \* or something else (label_block stays None, block.index(None) raises)
        Child(bp, block, g, label_block_index, stmt) ==
            IF stmt.kind = "Loop"
            THEN [pair EXCEPT !.lb_kind = "Loop", !.lb_bp = bp,
                              !.lb_index = PyNorm(block, label_block_index)]
            ELSE IF stmt.kind = "If"
            THEN ChildIf(bp, block, g, label_block_index, stmt,
                         If(stmt.label,
                            stmt.conditions
                                \o <<VariableCondition(pair.temp_name, OR)>>,
                            stmt.statements))
            ELSE Raise([pair EXCEPT !.statements =
                           SetBlockAt(@, bp, Step3(block, g, label_block_index,
                                                   pair.temp_name))],
                       "ValueError")
        InBlock(bp, block, g, label_block_index) ==
            IF ~PyIndexOK(block, label_block_index) THEN Raise(pair, "IndexError")
            ELSE Child(bp, block, g, label_block_index,
                       PyGet(block, label_block_index))
        Step2(gb) ==
            IF ~Ok(gb) THEN Raise(pair, gb.err)
            ELSE IF Len(pair.goto_path) = 0
            THEN Raise(pair, IF Len(pair.label_path) = 0 THEN "IndexError"
                             ELSE "TypeError")
            ELSE IF Len(pair.goto_path) - 1 >= Len(pair.label_path)
            THEN Raise(pair, "IndexError")
            ELSE InBlock(gb.bp, BlockAt(pair.statements, gb.bp),
                         Last(pair.goto_path),
                         pair.label_path[Len(pair.goto_path)])
    IN  Step2(get_block(pair.statements, pair.goto_path))

\* where the Loop object label_block is after case 1.1 ran on the block
\* that holds it: gone, or at index idx of the block bp
LoopAfter_1_1(bp, block, g, l, pos) ==
    LET lo == PyBound(block, g + 1)
        hi == PyBound(block, l)
    IN  IF pos = g THEN [gone |-> TRUE, bp |-> bp, idx |-> 0]
        ELSE IF hi > lo
        THEN IF pos >= lo /\ pos < hi
             THEN [gone |-> FALSE, bp |-> Append(bp, g), idx |-> pos - lo]
             ELSE IF pos >= hi
             THEN [gone |-> FALSE, bp |-> bp, idx |-> pos - (hi - lo)]
             ELSE [gone |-> FALSE, bp |-> bp, idx |-> pos]
        ELSE [gone |-> FALSE, bp |-> bp, idx |-> IF pos > g THEN pos - 1 ELSE pos]

algo_2_1__goto_in_parent_block__before(pair) ==
    LET \* label_block.statements.insert(label_index, temp_var), label_block
        \* being the statement at index idx of holder
        InsertInto(holder, idx, label_index, temp_var) ==
            [holder EXCEPT ![idx + 1].statements =
                 PyInsert(@, label_index, temp_var)]
        \* Step 7: label_index = label_path[:1][-1] of the path find_label fills
        Step7(p1, p2, fl, at) ==
            IF ~Ok(fl) THEN Raise(p2, fl.err)
            ELSE IF ~fl.found THEN Raise(p2, "IndexError")
            ELSE IF Last(p1.goto_path) < 0 THEN Raise(p2, "ModelLimit")
            ELSE IF at.gone THEN p2
            ELSE [p2 EXCEPT !.statements =
                     SetBlockAt(@, at.bp,
                                InsertInto(BlockAt(p2.statements, at.bp), at.idx,
                                           fl.path[1], FalseLet(p1.temp_name)))]
        \* after Step 6: isinstance(label_block, Loop)
        InLoop(p1, label_stmt, p2) ==
            IF ~Ok(p2) THEN p2
            ELSE IF p1.lb_kind # "Loop" THEN p2
            ELSE IF ~HasLabel(label_stmt) THEN Raise(p2, "AttributeError")
            ELSE Step7(p1, p2, find_label(label_stmt.label, p2.statements),
                       LoopAfter_1_1(p1.lb_bp, BlockAt(p1.statements, p1.lb_bp),
                                     Last(p1.goto_path), Last(p1.label_path),
                                     p1.lb_index))
        \* Step 6: label_stmt = block[pair.label_path[-1]], then case 1.1
        Step6(p1, ls) ==
            IF ~Ok(ls) THEN Raise(p1, ls.err)
            ELSE InLoop(p1, ls.stmt, algo_1_1_same_level_same_block__before(p1))
        AfterLoop(p1) ==
            IF ~Ok(p1) THEN p1
            ELSE Step6(p1, StmtIn(p1.statements, p1.label_path,
                                  get_block(p1.statements, p1.label_path)))
        \* Step 1, then the while loop
        Step1(p0) == IF ~Ok(p0) THEN p0 ELSE algo_2_1_loop(p0)
    IN  AfterLoop(Step1(goto_temp_var(pair)))

\* ------------------------------------------------------------------------
\* Case 2.2
\* ------------------------------------------------------------------------
algo_2_2__goto_in_parent_block__after(pair) ==
    LET \* Step 3: new_goto_index = block.index(goto_stmt);
        \* del block[new_goto_index]; stmts.insert(0, goto_stmt), the loop
        \* being at index pos of the block
        Step3_move(p0, gs, block, pos, loop_stmt) ==
            IF PyIndexOf(block, gs.stmt) < 0
            THEN Raise([p0 EXCEPT !.statements = SetBlockAt(@, gs.bp, block)],
                       "ValueError")
            ELSE [p0 EXCEPT !.statements =
                     SetBlockAt(@, gs.bp,
                         PyDel([block EXCEPT ![pos + 1] =
                                    [loop_stmt EXCEPT !.statements =
                                         <<gs.stmt>> \o @]],
                               PyIndexOf(block, gs.stmt)))]
        \* block.insert(label_block_index, loop_stmt)
        Insert(p0, gs, block, label_block_index, loop_stmt) ==
            Step3_move(p0, gs, PyInsert(block, label_block_index, loop_stmt),
                       PyBound(block, label_block_index), loop_stmt)
        \* Step 2: stmts = block[label_block_index : goto_path[-1]] go into
        \* a Loop
        Step2(p0, gs, g, label_block_index) ==
            Insert(p0, gs, PyDelSlice(gs.block, label_block_index, g),
                   label_block_index,
                   Loop(None, <<VariableCondition(p0.temp_name, INITIAL)>>,
                        PySlice(gs.block, label_block_index, g)))
        WithGoto(p0, gs) ==
            IF ~Ok(gs) THEN Raise(p0, gs.err)
            ELSE IF Len(p0.goto_path) - 1 >= Len(p0.label_path)
            THEN Raise(p0, "IndexError")
            ELSE Step2(p0, gs, Last(p0.goto_path),
                       p0.label_path[Len(p0.goto_path)])
        Step1(p0) == IF ~Ok(p0) THEN p0 ELSE WithGoto(p0, GotoStmtAt(p0))
    IN  Step1(goto_temp_var(pair))

\* ------------------------------------------------------------------------
\* move_up_a_block, cases 3.x and 4.x
\* ------------------------------------------------------------------------
BreakIf(temp_name) ==
    If(None, <<VariableCondition(temp_name, INITIAL)>>, <<Break(None)>>)

move_up_a_block(pair, is_after) ==
    LET \* Step 2: in a loop the goto statement is replaced by a 1-tuple that
        \* holds the If with the Break; otherwise the rest of the block goes
        \* under an If
        Step2(block, g, in_loop, stmts) ==
            IF in_loop THEN PySet(block, g, Tuple1(BreakIf(pair.temp_name)))
            ELSE IF Len(stmts) > 0
            THEN PySet(PyDelSlice(block, g + 1, Len(block)), g,
                       If(None,
                          invert_conditions(
                              <<VariableCondition(pair.temp_name, INITIAL)>>),
                          stmts))
            ELSE PyDel(block, g)
        \* the label path is updated if the label occurs after the goto
        LabelPath(p) ==
            IF ~is_after /\ Len(p.goto_path) <= Len(p.label_path)
            THEN [p EXCEPT !.label_path[Len(p.goto_path)] = @ + 1]
            ELSE p
        \* new_block.insert(pair.goto_path[-1], goto_stmt)
        Insert(p, goto_stmt, nb) ==
            IF ~Ok(nb) THEN Raise(p, nb.err)
            ELSE LabelPath(
                     [p EXCEPT !.statements =
                         SetBlockAt(@, nb.bp,
                                    PyInsert(BlockAt(p.statements, nb.bp),
                                             Last(p.goto_path), goto_stmt))])
        NewBlock(p, goto_stmt) ==
            Insert(p, goto_stmt, get_block(p.statements, p.goto_path))
        \* Step 3: pair.goto_path = pair.goto_path[:-1];
        \* pair.goto_path[-1] += 1
        Step3_up(p, goto_stmt) ==
            IF Len(p.goto_path) = 0 THEN Raise(p, "IndexError")
            ELSE NewBlock([p EXCEPT !.goto_path = SetLast(@, Last(@) + 1)],
                          goto_stmt)
        WithGoto(gs, in_loop) ==
            IF ~Ok(gs) THEN Raise(pair, gs.err)
            ELSE IF ~Ok(in_loop) THEN Raise(pair, in_loop.err)
            ELSE Step3_up(
                     [pair EXCEPT
                         !.statements =
                             SetBlockAt(@, gs.bp,
                                 Step2(gs.block, Last(pair.goto_path),
                                       in_loop.val,
                                       PySlice(gs.block,
                                               Last(pair.goto_path) + 1,
                                               Len(gs.block)))),
                         !.goto_path = DropLast(@)],
                     gs.stmt)
    IN  WithGoto(GotoStmtAt(pair), path_in_loop(pair.statements, pair.goto_path))

\* algo_3: goto_temp_var, then move_up_a_block until the goto and the label
\* are in the same block
RECURSIVE algo_3_loop(_, _)
algo_3_loop(pair, is_after) ==
    LET Again(p) ==
            IF ~Ok(p) THEN p
            ELSE IF DropLast(p.label_path) = DropLast(p.goto_path) THEN p
            ELSE algo_3_loop(p, is_after)
    IN  Again(move_up_a_block(pair, is_after))

algo_3(pair, is_after) ==
    LET Step1(p0) == IF ~Ok(p0) THEN p0 ELSE algo_3_loop(p0, is_after)
    IN  Step1(goto_temp_var(pair))

algo_3_1__label_in_parent_block__before(pair) ==
    LET Step5(p1) ==
            IF ~Ok(p1) THEN p1 ELSE algo_1_1_same_level_same_block__before(p1)
    IN  Step5(algo_3(pair, FALSE))

algo_3_2__label_in_parent_block__after(pair) ==
    LET \* block.insert(pair.label_path[-1], let_stmt)
        Insert(p2, let_stmt, lb) ==
            IF ~Ok(lb) THEN Raise(p2, lb.err)
            ELSE [p2 EXCEPT !.statements =
                     SetBlockAt(@, lb.bp,
                                PyInsert(BlockAt(p2.statements, lb.bp),
                                         Last(p2.label_path), let_stmt))]
        \* Step 6: the temporary variable is set to false if the label is in
        \* a loop
        Step6(p2, goto_conds, in_loop) ==
            IF ~Ok(p2) THEN p2
            ELSE IF ~Ok(in_loop) THEN Raise(p2, in_loop.err)
            ELSE IF ~in_loop.val THEN p2
            ELSE IF Len(goto_conds) = 0 THEN Raise(p2, "IndexError")
            ELSE IF goto_conds[1].cls
                        \notin {"VariableCondition", "NotVariableCondition"}
            THEN Raise(p2, "AttributeError")
            ELSE Insert(p2, FalseLet(goto_conds[1].var),
                        get_block(p2.statements, p2.label_path))
        LabelInLoop(p2, goto_conds) ==
            Step6(p2, goto_conds, path_in_loop(p2.statements, p2.label_path))
        \* Step 5: goto_conds = goto_stmt.conditions, then case 1.2
        Step5(p1, gs) ==
            IF ~Ok(gs) THEN Raise(p1, gs.err)
            ELSE IF ~HasConditions(gs.stmt) THEN Raise(p1, "AttributeError")
            ELSE LabelInLoop(algo_1_2_same_level_same_block__after(p1),
                             gs.stmt.conditions)
        AfterLoop(p1) == IF ~Ok(p1) THEN p1 ELSE Step5(p1, GotoStmtAt(p1))
    IN  AfterLoop(algo_3(pair, TRUE))

\* algo_4: goto_temp_var, then move_up_a_block until the pair is of case 2.x
RECURSIVE algo_4_loop(_, _)
algo_4_loop(pair, is_after) ==
    LET Again(p) ==
            IF ~Ok(p) THEN p
            ELSE IF classify(p.goto_path, p.label_path) \in {"2.1", "2.2"} THEN p
            ELSE algo_4_loop(p, is_after)
    IN  Again(move_up_a_block(pair, is_after))

algo_4(pair, is_after) ==
    LET Step1(p0) == IF ~Ok(p0) THEN p0 ELSE algo_4_loop(p0, is_after)
    IN  Step1(goto_temp_var(pair))

algo_4_1__label_in_disjunct__before(pair) ==
    LET Step5(p1) ==
            IF ~Ok(p1) THEN p1 ELSE algo_2_1__goto_in_parent_block__before(p1)
    IN  Step5(algo_4(pair, FALSE))

algo_4_2__label_in_disjunct__after(pair) ==
    LET Step5(p1) ==
            IF ~Ok(p1) THEN p1 ELSE algo_2_2__goto_in_parent_block__after(p1)
    IN  Step5(algo_4(pair, TRUE))

\* ------------------------------------------------------------------------
\* Running a context: the statements run in order from the first one; a Goto
\* continues at the statement that carries its target label; an If runs its
\* body when its conditions hold; a Loop runs its body, then runs it again
\* while its conditions hold; a Break leaves the innermost Loop.  The user
\* variable starts at 0, a LET of an arithmetic expression adds 1 to it, the
\* temporaries start false, and a Print puts its line label on the output.
\* ------------------------------------------------------------------------
RECURSIVE EvalFrom(_, _, _, _, _)
\* the truth value of conditions[i..], the links applied from left to right
\* onto v
EvalFrom(conditions, i, v, a, temps) ==
    IF i > Len(conditions) THEN v
    ELSE LET c == conditions[i]
             x == CASE c.cls = "VariableCondition" -> c.var \in temps
                    [] c.cls = "NotVariableCondition" -> c.var \notin temps
                    [] c.cls = "TrueFalseCondition" -> c.value = "true"
                    [] OTHER ->
                         CASE c.operator = "<" -> a < c.right
                           [] c.operator = ">" -> a > c.right
                           [] c.operator = "=" -> a = c.right
                           [] c.operator = "<>" -> a # c.right
                           [] c.operator = "<=" -> a <= c.right
                           [] c.operator = ">=" -> a >= c.right
         IN  EvalFrom(conditions, i + 1,
                      IF c.type = AND THEN v /\ x
                      ELSE IF c.type = OR THEN v \/ x ELSE x,
                      a, temps)

StmtAt(statements, path) ==
    BlockAt(statements, DropLast(path))[Last(path) + 1]

RECURSIVE Advance(_, _, _, _)
\* the path of the statement that runs when the statement at path is done:
\* the next one of its block, the first one of the enclosing Loop whose
\* conditions hold, or what runs when the enclosing statement is done;
\* <<>> at the end of the context
Advance(statements, path, a, temps) ==
    IF Last(path) + 1 < Len(BlockAt(statements, DropLast(path)))
    THEN SetLast(path, Last(path) + 1)
    ELSE IF Len(path) = 1 THEN <<>>
    ELSE IF /\ StmtAt(statements, DropLast(path)).kind = "Loop"
            /\ EvalFrom(StmtAt(statements, DropLast(path)).conditions, 1,
                        TRUE, a, temps)
    THEN SetLast(path, 0)
    ELSE Advance(statements, DropLast(path), a, temps)

RECURSIVE EnclosingLoop(_, _)
\* the path of the innermost Loop around the statement at path, <<>> if none
EnclosingLoop(statements, path) ==
    IF Len(path) <= 1 THEN <<>>
    ELSE IF StmtAt(statements, DropLast(path)).kind = "Loop"
    THEN DropLast(path)
    ELSE EnclosingLoop(statements, DropLast(path))

RECURSIVE Run(_, _, _, _, _, _)
\* the run from the statement at path, of at most fuel steps: how it ends
\* ("halt", "fuel" when the steps are used up, "stuck" when a statement
\* cannot run) and the output
Run(statements, path, a, temps, out, fuel) ==
    IF path = <<>> THEN [status |-> "halt", out |-> out]
    ELSE IF fuel = 0 THEN [status |-> "fuel", out |-> out]
    ELSE LET s == StmtAt(statements, path)
             next == Advance(statements, path, a, temps)
         IN  CASE s.kind = "Print" ->
                    Run(statements, next, a, temps, Append(out, s.label),
                        fuel - 1)
               [] s.kind = "Let" /\ s.rval.exp = "BooleanExpression" ->
                    Run(statements,
                        Advance(statements, path, a,
                                IF EvalFrom(s.rval.conditions, 1, TRUE, a, temps)
                                THEN temps \cup {s.lval}
                                ELSE temps \ {s.lval}),
                        a,
                        IF EvalFrom(s.rval.conditions, 1, TRUE, a, temps)
                        THEN temps \cup {s.lval}
                        ELSE temps \ {s.lval},
                        out, fuel - 1)
               [] s.kind = "Let" /\ s.rval.exp # "BooleanExpression" ->
                    Run(statements, Advance(statements, path, a + 1, temps),
                        a + 1, temps, out, fuel - 1)
               [] s.kind = "If" ->
                    Run(statements,
                        IF /\ EvalFrom(s.conditions, 1, TRUE, a, temps)
                           /\ Len(s.statements) > 0
                        THEN path \o <<0>> ELSE next,
                        a, temps, out, fuel - 1)
               [] s.kind = "Loop" ->
                    Run(statements,
                        IF Len(s.statements) > 0 THEN path \o <<0>>
                        ELSE IF EvalFrom(s.conditions, 1, TRUE, a, temps)
                        THEN path ELSE next,
                        a, temps, out, fuel - 1)
               [] s.kind = "Goto" ->
                    IF find_label(s.target_label, statements).found
                    THEN Run(statements,
                             find_label(s.target_label, statements).path,
                             a, temps, out, fuel - 1)
                    ELSE [status |-> "stuck", out |-> out]
               [] s.kind = "Break" ->
                    IF EnclosingLoop(statements, path) = <<>>
                    THEN [status |-> "stuck", out |-> out]
                    ELSE Run(statements,
                             Advance(statements,
                                     EnclosingLoop(statements, path), a, temps),
                             a, temps, out, fuel - 1)
               [] s.kind = "End" -> [status |-> "halt", out |-> out]
               [] OTHER -> [status |-> "stuck", out |-> out]

Execute(statements, fuel) ==
    IF Len(statements) = 0 THEN [status |-> "halt", out |-> <<>>]
    ELSE Run(statements, <<0>>, 0, {}, <<>>, fuel)

\* ------------------------------------------------------------------------
\* Input programs: two contexts, MaxNodes statements at most (MaxSubNodes in
\* the context "100"), numbered in pre-order (the line numbers), MaxGotos
\* Gotos at most, each with or without a line number of its own and with a
\* target of its own context; the statements and the Gotos together are
\* MaxSize at most
\* ------------------------------------------------------------------------
ContextOrder == <<"main", "100">>
Contexts == {ContextOrder[k] : k \in 1..Len(ContextOrder)}

UserVar == <<"a">>
UserCond == <<Condition(UserVar, "<", 1, INITIAL)>>

RECURSIVE Forests(_, _, _, _, _)
RECURSIVE Trees(_, _, _, _, _)
\* the lists of exactly n statements numbered first, first+1, ... that hold
\* exactly g Gotos with targets in lo..hi
Forests(n, first, g, lo, hi) ==
    IF n = 0 THEN (IF g = 0 THEN {<<>>} ELSE {})
    ELSE UNION {UNION {{<<s>> \o rest :
                            s \in Trees(k, first, g1, lo, hi),
                            rest \in Forests(n - k, first + k, g - g1, lo, hi)} :
                       g1 \in 0..g} :
                k \in 1..n}

Trees(k, first, g, lo, hi) ==
    IF k = 1
    THEN IF g = 0
         THEN {PrintStmt(first), Let(first, UserVar, ArithmeticExpression)}
         ELSE IF g = 1
         THEN {Goto(lab, t) : lab \in {None, first}, t \in lo..hi}
         ELSE {}
    ELSE {Node(kind, first, UserCond, body, 0, <<>>, NoExp) :
              kind \in (IF MaxLoops > 0 THEN {"If", "Loop"} ELSE {"If"}),
              body \in Forests(k - 1, first + 1, g, lo, hi)}

RECURSIVE LabelsOf(_)
\* the labels of a list in pre-order, None left out (a tuple has no label)
LabelsOf(statements) ==
    IF Len(statements) = 0 THEN <<>>
    ELSE LET s == Head(statements)
         IN  (IF HasLabel(s) /\ s.label # None THEN <<s.label>> ELSE <<>>)
             \o LabelsOf(s.statements) \o LabelsOf(Tail(statements))

RECURSIVE TargetsOf(_)
\* the targets of the Gotos of a list in pre-order
TargetsOf(statements) ==
    IF Len(statements) = 0 THEN <<>>
    ELSE LET s == Head(statements)
         IN  (IF s.kind = "Goto" THEN <<s.target_label>> ELSE <<>>)
             \o TargetsOf(s.statements) \o TargetsOf(Tail(statements))

RECURSIVE CountKind(_, _)
CountKind(statements, kind) ==
    IF Len(statements) = 0 THEN 0
    ELSE LET s == Head(statements)
         IN  (IF s.kind = kind THEN 1 ELSE 0)
             + CountKind(s.statements, kind) + CountKind(Tail(statements), kind)

Range(f) == {f[k] : k \in DOMAIN f}

TargetsResolve(statements) == Range(TargetsOf(statements)) \subseteq Range(LabelsOf(statements))

ContextInputs(n, first, g) ==
    {f \in Forests(n, first, g, first, first + n - 1) :
         /\ TargetsResolve(f)
         /\ CountKind(f, "Let") <= MaxLets
         /\ CountKind(f, "Loop") <= MaxLoops}

\* the sizes of a program: n statements in all, k of them in the context
\* "100", and g Gotos in all
ProgramSizes ==
    {z \in (0..MaxNodes) \X (0..MaxSubNodes) \X (0..MaxGotos) :
         z[2] <= z[1] /\ z[1] + z[3] <= MaxSize}

InputsOfSize(n, k, g) ==
    UNION {{[c \in Contexts |-> IF c = "main" THEN m ELSE f] :
                m \in ContextInputs(n - k, 1, gm),
                f \in ContextInputs(k, n - k + 1, g - gm)} :
           gm \in 0..g}

Inputs == UNION {InputsOfSize(z[1], z[2], z[3]) : z \in ProgramSizes}

\* ------------------------------------------------------------------------
\* eliminate_goto: the state
\* ------------------------------------------------------------------------
VARIABLES
    statements,     \* program.statements: context -> list of statements
    TEMP_VAR_NUM,   \* the global counter of get_temp_name
    pc,             \* "entry", "loop", "returned" or "raised"
    raised,         \* the exception that ended the call, "" if none
    input,          \* program.statements at the entry of the call
    issued,         \* the names get_temp_name returned in this call
    calls,          \* the number of calls of eliminate_goto so far
    iterations,     \* the driver iterations of this call so far
    last_case,      \* the case the last driver iteration dispatched
    last_context,   \* the context of the last driver iteration
    args,           \* the arguments of a function that is applied on its own
    result          \* what the function returned

vars == <<statements, TEMP_VAR_NUM, pc, raised, input, issued, calls,
          iterations, last_case, last_context, args, result>>

\* the value earlier calls of the process may have left in TEMP_VAR_NUM
LeftOver == {0, MaxGotos}

Init ==
    /\ statements \in Inputs
    /\ TEMP_VAR_NUM \in LeftOver
    /\ pc = "entry"
    /\ raised = ""
    /\ input = statements
    /\ issued = <<>>
    /\ calls = 1
    /\ iterations = 0
    /\ last_case = ""
    /\ last_context = ""
    /\ args = <<>>
    /\ result = <<>>

\* Enter without the reset of TEMP_VAR_NUM
EnterWithoutReset ==
    /\ pc = "entry"
    /\ pc' = "loop"
    /\ UNCHANGED <<statements, TEMP_VAR_NUM, raised, input, issued, calls,
                   iterations, last_case, last_context, args, result>>

\* global TEMP_VAR_NUM; TEMP_VAR_NUM = 0
Enter ==
    /\ pc = "entry"
    /\ TEMP_VAR_NUM' = 0
    /\ pc' = "loop"
    /\ UNCHANGED <<statements, raised, input, issued, calls, iterations,
                   last_case, last_context, args, result>>

\* the for loop over statements.keys(): find_pair returns None for the
\* contexts without a Goto, so the first context with a Goto is the one
HasGoto(c) == find_goto(statements[c]).found
Found == \E c \in Contexts : HasGoto(c)
\* the last context of the program that holds a Goto, not the first one
LastGotoContext ==
    ContextOrder[CHOOSE k \in 1..Len(ContextOrder) :
                     /\ HasGoto(ContextOrder[k])
                     /\ \A j \in (k + 1)..Len(ContextOrder) :
                            ~HasGoto(ContextOrder[j])]

FirstGotoContext ==
    ContextOrder[CHOOSE k \in 1..Len(ContextOrder) :
                     /\ HasGoto(ContextOrder[k])
                     /\ \A j \in 1..(k - 1) : ~HasGoto(ContextOrder[j])]

\* pair = find_pair(statements[context])
CurrentPair == find_pair(statements[FirstGotoContext])

\* the GotoLabelPair and the list of the context, as the algorithms get them
NewPair(fp) ==
    [err |-> "", statements |-> fp.statements, goto_path |-> fp.goto_path,
     label_path |-> fp.label_path, TEMP_VAR_NUM |-> TEMP_VAR_NUM,
     issued |-> issued, temp_name |-> <<>>, lb_kind |-> "None",
     lb_bp |-> <<>>, lb_index |-> 0]

\* an iteration that hands the list the algorithm leaves to every context
DispatchIntoAll(case, c, fp, r) ==
    /\ pc = "loop"
    /\ iterations < MaxIterations
    /\ Found
    /\ Ok(fp)
    /\ classify(fp.goto_path, fp.label_path) = case
    /\ statements' = [k \in Contexts |-> r.statements]
    /\ TEMP_VAR_NUM' = r.TEMP_VAR_NUM
    /\ issued' = r.issued
    /\ raised' = r.err
    /\ pc' = IF Ok(r) THEN "loop" ELSE "raised"
    /\ last_case' = case
    /\ last_context' = c
    /\ iterations' = iterations + 1
    /\ UNCHANGED <<input, calls, args, result>>

\* one iteration of the while loop: the pair fp is of the given case and r
\* is what the algorithm of the case leaves
Dispatch(case, c, fp, r) ==
    /\ pc = "loop"
    /\ iterations < MaxIterations
    /\ Found
    /\ Ok(fp)
    /\ classify(fp.goto_path, fp.label_path) = case
    /\ statements' = [statements EXCEPT ![c] = r.statements]
    /\ TEMP_VAR_NUM' = r.TEMP_VAR_NUM
    /\ issued' = r.issued
    /\ raised' = r.err
    /\ pc' = IF Ok(r) THEN "loop" ELSE "raised"
    /\ last_case' = case
    /\ last_context' = c
    /\ iterations' = iterations + 1
    /\ UNCHANGED <<input, calls, args, result>>

Dispatch_1_1 ==
    Dispatch("1.1", FirstGotoContext, CurrentPair,
             algo_1_1_same_level_same_block__before(NewPair(CurrentPair)))
Dispatch_1_2 ==
    Dispatch("1.2", FirstGotoContext, CurrentPair,
             algo_1_2_same_level_same_block__after(NewPair(CurrentPair)))
Dispatch_2_1 ==
    Dispatch("2.1", FirstGotoContext, CurrentPair,
             algo_2_1__goto_in_parent_block__before(NewPair(CurrentPair)))
Dispatch_2_2 ==
    Dispatch("2.2", FirstGotoContext, CurrentPair,
             algo_2_2__goto_in_parent_block__after(NewPair(CurrentPair)))
Dispatch_3_1 ==
    Dispatch("3.1", FirstGotoContext, CurrentPair,
             algo_3_1__label_in_parent_block__before(NewPair(CurrentPair)))
Dispatch_3_2 ==
    Dispatch("3.2", FirstGotoContext, CurrentPair,
             algo_3_2__label_in_parent_block__after(NewPair(CurrentPair)))
Dispatch_4_1 ==
    Dispatch("4.1", FirstGotoContext, CurrentPair,
             algo_4_1__label_in_disjunct__before(NewPair(CurrentPair)))
Dispatch_4_2 ==
    Dispatch("4.2", FirstGotoContext, CurrentPair,
             algo_4_2__label_in_disjunct__after(NewPair(CurrentPair)))

\* find_pair raises: the label is missing or a statement has no label
FindPairRaisesIn(c, fp) ==
    /\ pc = "loop"
    /\ Found
    /\ ~Ok(fp)
    /\ statements' = [statements EXCEPT ![c] = fp.statements]
    /\ raised' = fp.err
    /\ last_context' = c
    /\ pc' = "raised"
    /\ last_case' = "find_pair"
    /\ UNCHANGED <<TEMP_VAR_NUM, input, issued, calls, iterations, args,
                   result>>

FindPairRaises == FindPairRaisesIn(FirstGotoContext, CurrentPair)

\* found is False: find_pair has run on the list of every context and has
\* found no Goto in it; return program
Return ==
    /\ pc = "loop"
    /\ ~Found
    /\ statements' = [c \in Contexts |-> find_goto(statements[c]).statements]
    /\ pc' = "returned"
    /\ UNCHANGED <<TEMP_VAR_NUM, raised, input, issued, calls, iterations,
                   last_case, last_context, args, result>>

\* eliminate_goto is called again, on the program it returned
CallAgain ==
    /\ pc = "returned"
    /\ calls < MaxCalls
    /\ pc' = "entry"
    /\ input' = statements
    /\ calls' = calls + 1
    /\ issued' = <<>>
    /\ iterations' = 0
    /\ last_case' = ""
    /\ last_context' = ""
    /\ UNCHANGED <<statements, TEMP_VAR_NUM, raised, args, result>>

Next ==
    \/ Enter
    \/ Dispatch_1_1
    \/ Dispatch_1_2
    \/ Dispatch_2_1
    \/ Dispatch_2_2
    \/ Dispatch_3_1
    \/ Dispatch_3_2
    \/ Dispatch_4_1
    \/ Dispatch_4_2
    \/ FindPairRaises
    \/ Return
    \/ CallAgain

Spec == Init /\ [][Next]_vars


\* ------------------------------------------------------------------------
\* classify and invert_conditions on their own: the arguments are drawn
\* from bounded sets and the function is applied to them
\* ------------------------------------------------------------------------
\* no call of eliminate_goto is under way
Idle ==
    /\ statements = [c \in Contexts |-> <<>>]
    /\ input = [c \in Contexts |-> <<>>]
    /\ TEMP_VAR_NUM = 0
    /\ raised = ""
    /\ issued = <<>>
    /\ calls = 0
    /\ iterations = 0
    /\ last_case = ""
    /\ last_context = ""

\* the paths of at most MaxPathLen indices, none empty
Paths == UNION {[1..k -> 0..MaxIndex] : k \in 1..MaxPathLen}

InitClassify ==
    /\ Idle
    /\ pc = "classify"
    /\ args \in Paths \X Paths
    /\ result = ""

\* GotoLabelPair(statements, goto_path, label_path).classify()
Classify ==
    /\ pc = "classify"
    /\ result' = classify(args[1], args[2])
    /\ pc' = "classified"
    /\ UNCHANGED <<statements, TEMP_VAR_NUM, raised, input, issued, calls,
                   iterations, last_case, last_context, args>>

SpecClassify == InitClassify /\ [][Classify]_vars

\* the relations the lexer knows, on the user variable
RelationalConditions ==
    {Condition(UserVar, op, right, type) :
         op \in {"<", ">", "=", "<>", "<=", ">="}, right \in 0..1,
         type \in {INITIAL, AND, OR}}

ConditionLists ==
    UNION {[1..k -> RelationalConditions] : k \in 0..MaxConditions}

InitInvert ==
    /\ Idle
    /\ pc = "invert"
    /\ args \in ConditionLists
    /\ result = <<>>

\* invert_conditions(conditions)
Invert ==
    /\ pc = "invert"
    /\ result' = invert_conditions(args)
    /\ pc' = "inverted"
    /\ UNCHANGED <<statements, TEMP_VAR_NUM, raised, input, issued, calls,
                   iterations, last_case, last_context, args>>

\* invert_conditions(invert_conditions(conditions))
InvertAgain ==
    /\ pc = "inverted"
    /\ result' = invert_conditions(result)
    /\ pc' = "inverted twice"
    /\ UNCHANGED <<statements, TEMP_VAR_NUM, raised, input, issued, calls,
                   iterations, last_case, last_context, args>>

NextInvert == Invert \/ InvertAgain

SpecInvert == InitInvert /\ [][NextInvert]_vars
\* ------------------------------------------------------------------------
\* lex.Lexer: the program text is a sequence of characters, a lexeme and
\* the value of a token are sequences of characters
\* ------------------------------------------------------------------------
Token(value, type, line, col) ==
    [value |-> value, type |-> type, line |-> line, col |-> col]

KEYWORDS ==
    {<<"P", "R", "I", "N", "T">>, <<"I", "F">>, <<"T", "H", "E", "N">>,
     <<"G", "O", "T", "O">>, <<"I", "N", "P", "U", "T">>, <<"L", "E", "T">>,
     <<"G", "O", "S", "U", "B">>, <<"R", "E", "T", "U", "R", "N">>,
     <<"C", "L", "E", "A", "R">>, <<"L", "I", "S", "T">>, <<"R", "U", "N">>,
     <<"E", "N", "D">>, <<"F", "O", "R">>, <<"T", "O">>,
     <<"S", "T", "E", "P">>, <<"N", "E", "X", "T">>}

\* string.whitespace (the vertical tab and the form feed left out)
whitespace == {" ", "\t", "\n", "\r"}
\* str.isupper and str.isalpha of one character, str.isnumeric
Upper ==
    {"A", "B", "C", "D", "E", "F", "G", "H", "I", "J", "K", "L", "M", "N",
     "O", "P", "Q", "R", "S", "T", "U", "V", "W", "X", "Y", "Z"}
Digits == {"0", "1", "2", "3", "4", "5", "6", "7", "8", "9"}
isnumeric(lexeme) ==
    Len(lexeme) > 0 /\ \A k \in 1..Len(lexeme) : lexeme[k] \in Digits

\* Lexer.__init__
_arithmetic_ops == {<<"+">>, <<"-">>, <<"*">>, <<"/">>}
_relation_ops ==
    {<<"<">>, <<">">>, <<"=">>, <<"<", ">">>, <<"<", "=">>, <<">", "=">>}
_sym == {<<"(">>, <<")">>, <<",">>} \cup _arithmetic_ops \cup _relation_ops

\* the Lexer before the first character: _lexeme, _tokens, the line and
\* col of its LexIterator, is_comment of get_tokens
NewLexer ==
    [err |-> "", lexeme |-> <<>>, tokens |-> <<>>, line |-> 1, col |-> 0,
     is_comment |-> FALSE]

\* LexIterator.next, for a character that is not None
IterNext(lx, char) ==
    IF char = "\n" THEN [lx EXCEPT !.line = @ + 1, !.col = 0]
    ELSE [lx EXCEPT !.col = @ + 1]

\* Lexer.__append_token, with the lexeme emptied as the callers do next
append_token(lx, token_type) ==
    [lx EXCEPT !.tokens = Append(@, Token(lx.lexeme, token_type, lx.line,
                                          (lx.col + 1) - Len(lx.lexeme))),
               !.lexeme = <<>>]

\* Lexer.__append_symbol
append_symbol(lx) ==
    IF lx.lexeme = <<",">> THEN append_token(lx, "COMMA")
    ELSE IF lx.lexeme = <<")">> THEN append_token(lx, "RPAREN")
    ELSE IF lx.lexeme = <<"(">> THEN append_token(lx, "LPAREN")
    ELSE IF lx.lexeme \in _relation_ops THEN append_token(lx, "RELATION_OP")
    ELSE IF lx.lexeme \in _arithmetic_ops
    THEN append_token(lx, "ARITHMETIC_OP")
    ELSE [lx EXCEPT !.err = "LexError"]

RECURSIVE get_tokens_from(_, _, _)
\* Lexer.get_tokens: the pass of the while loop that reads program[i], lx
\* being the lexer as the earlier passes left it
get_tokens_from(program, i, lx0) ==
    IF i > Len(program) \/ lx0.err # "" THEN lx0
    ELSE
    LET char == program[i]
        lx == IterNext(lx0, char)
        peeked == i < Len(program)
        next_1 == IF peeked THEN program[i + 1] ELSE ""
        \* is_comment: Lexer.__comment
        InComment(with) ==
            IF Len(with.lexeme) > 1 /\ with.lexeme[Len(with.lexeme)] = "\n"
            THEN [append_token(with, "COMMENT") EXCEPT !.is_comment = FALSE]
            ELSE with
        \* a string: Lexer.__string_literal
        InString(with) ==
            IF Len(with.lexeme) > 1 /\ with.lexeme[Len(with.lexeme)] = "\""
            THEN append_token(with, "STRING")
            ELSE with
        \* the lexeme is complete: a keyword, REM, a variable or a number
        Complete(with) ==
            IF with.lexeme \in KEYWORDS THEN append_token(with, "STATEMENT")
            ELSE IF with.lexeme = <<"R", "E", "M">>
            THEN [with EXCEPT !.is_comment = TRUE, !.lexeme = <<>>]
            ELSE IF Len(with.lexeme) = 1 /\ with.lexeme[1] \in Upper
            THEN append_token(with, "VARIABLE")
            ELSE IF isnumeric(with.lexeme) THEN append_token(with, "NUMBER")
            ELSE IF Len(with.lexeme) > 1
            THEN [with EXCEPT !.err = "LexError"]
            ELSE [with EXCEPT !.lexeme = <<>>]
        \* Lexer.__symbol, then Lexer.__complete_lexeme
        Other(with) ==
            IF peeked /\ Append(with.lexeme, next_1) \in _sym
            THEN get_tokens_from(
                     program, i + 2,
                     IterNext(append_symbol(
                                  [with EXCEPT !.lexeme = Append(@, next_1)]),
                              next_1))
            ELSE IF with.lexeme \in _sym
            THEN get_tokens_from(program, i + 1, append_symbol(with))
            ELSE IF ~peeked \/ next_1 \in whitespace \/ <<next_1>> \in _sym
            THEN get_tokens_from(program, i + 1, Complete(with))
            ELSE get_tokens_from(program, i + 1, with)
    IN  IF lx.is_comment
        THEN get_tokens_from(program, i + 1,
                             InComment([lx EXCEPT !.lexeme = Append(@, char)]))
        ELSE IF char = "\"" \/ (Len(lx.lexeme) > 0 /\ lx.lexeme[1] = "\"")
        THEN get_tokens_from(program, i + 1,
                             InString([lx EXCEPT !.lexeme = Append(@, char)]))
        ELSE IF char \notin whitespace
        THEN Other([lx EXCEPT !.lexeme = Append(@, char)])
        ELSE Other(lx)

\* Lexer(program).get_tokens()
get_tokens(program) == get_tokens_from(program, 1, NewLexer)


\* ------------------------------------------------------------------------
\* get_tokens on its own: the program text is drawn line by line; a line is
\* a piece of code, which may be empty, followed or not by a REM comment,
\* and every line but the last one ends with a newline
\* ------------------------------------------------------------------------
CodeParts == {<<>>, <<"1", " ", "E", "N", "D", " ">>, <<"A", " ">>}
CommentParts ==
    {<<>>, <<"R", "E", "M">>, <<"R", "E", "M", " ", "x">>,
     <<"R", "E", "M", " ", "A">>}
SourceLines == [code : CodeParts, comment : CommentParts]
Sources == UNION {[1..k -> SourceLines] : k \in 1..MaxLines}
Endings == {<<>>, <<"\n">>}

RECURSIVE TextOf(_, _, _)
\* the text of the lines i.. of a source, the comments kept or left out,
\* the last line ended as given
TextOf(lines, i, choice) ==
    IF i > Len(lines) THEN <<>>
    ELSE lines[i].code
         \o (IF choice.comments THEN lines[i].comment ELSE <<>>)
         \o (IF i < Len(lines) THEN <<"\n">> ELSE choice.ending)
         \o TextOf(lines, i + 1, choice)

InitLex ==
    /\ Idle
    /\ pc = "lex"
    /\ args \in Sources \X Endings
    /\ result = <<>>

\* Lexer(program).get_tokens(), on the text and on the text without its
\* comments
GetTokens ==
    /\ pc = "lex"
    /\ result' = <<get_tokens(TextOf(args[1], 1,
                                     [comments |-> TRUE, ending |-> args[2]])),
                   get_tokens(TextOf(args[1], 1,
                                     [comments |-> FALSE, ending |-> args[2]]))>>
    /\ pc' = "lexed"
    /\ UNCHANGED <<statements, TEMP_VAR_NUM, raised, input, issued, calls,
                   iterations, last_case, last_context, args>>

SpecLex == InitLex /\ [][GetTokens]_vars

\* ------------------------------------------------------------------------
\* goto_temp_var on its own: a list with a Goto is drawn with the
\* conditions of its Ifs, find_pair gives the pair and goto_temp_var is
\* called on it, once and once more; t1 is issued already when the
\* conditions refer to it
\* ------------------------------------------------------------------------
IfConditions ==
    {UserCond,
     UserCond \o <<Condition(UserVar, ">", 0, AND)>>,
     <<NotVariableCondition(get_temp_name(0), INITIAL)>>,
     <<VariableCondition(get_temp_name(0), INITIAL)>>}

RECURSIVE WithConditions(_, _)
\* the list with conds as the conditions of every If
WithConditions(list, conds) ==
    IF Len(list) = 0 THEN <<>>
    ELSE LET s == Head(list)
         IN  <<IF s.kind = "If"
               THEN If(s.label, conds, WithConditions(s.statements, conds))
               ELSE s>> \o WithConditions(Tail(list), conds)

TempVarLists ==
    UNION {UNION {ContextInputs(n, 1, g) : g \in 1..MaxGotos} :
           n \in 1..MaxTempNodes}

InitTempVar ==
    /\ \E list \in TempVarLists, conds \in IfConditions :
           /\ args = <<WithConditions(list, conds)>>
           /\ TEMP_VAR_NUM = (IF conds[1].var = <<>> THEN 0 ELSE 1)
           /\ issued = (IF conds[1].var = <<>> THEN <<>>
                        ELSE <<get_temp_name(0)>>)
    /\ statements = [c \in Contexts |-> <<>>]
    /\ input = [c \in Contexts |-> <<>>]
    /\ pc = "pair"
    /\ raised = ""
    /\ calls = 0
    /\ iterations = 0
    /\ last_case = ""
    /\ last_context = ""
    /\ result = <<>>

\* the pair fp of find_pair, then pair.goto_temp_var()
TempVarOf(fp) ==
    /\ pc = "pair"
    /\ Ok(fp) /\ fp.found
    /\ result' = <<NewPair(fp), goto_temp_var(NewPair(fp))>>
    /\ pc' = "temp"
    /\ UNCHANGED <<statements, TEMP_VAR_NUM, raised, input, issued, calls,
                   iterations, last_case, last_context, args>>

TempVar == TempVarOf(find_pair(args[1]))

\* pair.goto_temp_var() on the pair as the first call has left it
TempVarAgain ==
    /\ pc = "temp"
    /\ Ok(result[2])
    /\ result' = <<result[2], goto_temp_var(result[2])>>
    /\ pc' = "temp again"
    /\ UNCHANGED <<statements, TEMP_VAR_NUM, raised, input, issued, calls,
                   iterations, last_case, last_context, args>>

NextTempVar == TempVar \/ TempVarAgain

SpecTempVar == InitTempVar /\ [][NextTempVar]_vars

\* ------------------------------------------------------------------------
\* move_up_a_block on its own: a list with one Goto is drawn, some of its
\* Ifs being Loops; find_pair gives the pair, of case 3.x or 4.x,
\* goto_temp_var is called on it and then move_up_a_block, once and again
\* as long as the while loop of algo_3 or algo_4 goes on
\* ------------------------------------------------------------------------
RECURSIVE AsLoops(_, _)
\* the list with the Ifs whose label is in labels turned into Loops
AsLoops(list, labels) ==
    IF Len(list) = 0 THEN <<>>
    ELSE LET s == Head(list)
         IN  <<IF s.kind = "If"
               THEN Node(IF s.label \in labels THEN "Loop" ELSE "If", s.label,
                         s.conditions, AsLoops(s.statements, labels), 0, <<>>,
                         NoExp)
               ELSE s>> \o AsLoops(Tail(list), labels)

MoveUpLists ==
    UNION {{AsLoops(list, labels) :
                list \in ContextInputs(n, 1, 1), labels \in SUBSET (1..n)} :
           n \in 1..MaxMoveNodes}

InitMoveUp ==
    /\ args \in {<<list>> : list \in MoveUpLists}
    /\ TEMP_VAR_NUM = 0
    /\ issued = <<>>
    /\ statements = [c \in Contexts |-> <<>>]
    /\ input = [c \in Contexts |-> <<>>]
    /\ pc = "pair"
    /\ raised = ""
    /\ calls = 0
    /\ iterations = 0
    /\ last_case = ""
    /\ last_context = ""
    /\ result = <<>>

\* the case of the pair of the list and the is_after that algo_3_1,
\* algo_3_2, algo_4_1 and algo_4_2 hand to algo_3 and algo_4
CaseOfList(list) ==
    classify(find_pair(list).goto_path, find_pair(list).label_path)
IsAfter(case) == case \in {"3.2", "4.2"}

\* temp_name = pair.goto_temp_var(), then the first move_up_a_block
MoveUpOf(fp, case) ==
    /\ pc = "pair"
    /\ Ok(fp) /\ fp.found
    /\ case \in {"3.1", "3.2", "4.1", "4.2"}
    /\ Ok(goto_temp_var(NewPair(fp)))
    /\ result' = <<goto_temp_var(NewPair(fp)),
                   move_up_a_block(goto_temp_var(NewPair(fp)), IsAfter(case))>>
    /\ last_case' = case
    /\ iterations' = 1
    /\ pc' = "moved"
    /\ UNCHANGED <<statements, TEMP_VAR_NUM, raised, input, issued, calls,
                   last_context, args>>

MoveUp == MoveUpOf(find_pair(args[1]), CaseOfList(args[1]))

\* the while loops of algo_3 and algo_4 go on
MoveUpGoesOn(p) ==
    IF last_case \in {"3.1", "3.2"}
    THEN DropLast(p.label_path) # DropLast(p.goto_path)
    ELSE classify(p.goto_path, p.label_path) \notin {"2.1", "2.2"}

MoveUpAgain ==
    /\ pc = "moved"
    /\ Ok(result[2])
    /\ MoveUpGoesOn(result[2])
    /\ iterations < MaxIterations
    /\ result' = <<result[2], move_up_a_block(result[2], IsAfter(last_case))>>
    /\ iterations' = iterations + 1
    /\ UNCHANGED <<statements, TEMP_VAR_NUM, pc, raised, input, issued, calls,
                   last_case, last_context, args>>

NextMoveUp == MoveUp \/ MoveUpAgain

SpecMoveUp == InitMoveUp /\ [][NextMoveUp]_vars

\* ------------------------------------------------------------------------
\* rustify.format_condition: the Rust text of a list of conditions, a
\* sequence of characters
\* ------------------------------------------------------------------------
\* expression(exp) for a VariableExpression: "state.%s" % exp.var
expression_var(var) == <<"s", "t", "a", "t", "e", ".">> \o var

\* expression(exp) for a number: str(exp)
expression_number(n) == FormatDecimal(n)

\* relop: "<>" becomes "!=", "=" becomes "==", the others stay
relop(operator) ==
    CASE operator = "<>" -> <<"!", "=">>
      [] operator = "=" -> <<"=", "=">>
      [] operator = "<" -> <<"<">>
      [] operator = ">" -> <<">">>
      [] operator = "<=" -> <<"<", "=">>
      [] operator = ">=" -> <<">", "=">>

\* what the body of the for loop appends to code for one condition
format_one(cond) ==
    (IF cond.type = AND THEN <<" ", "&", "&", " ">>
     ELSE IF cond.type = OR THEN <<" ", "|", "|", " ">>
     ELSE <<>>)
    \o (IF cond.cls = "VariableCondition" THEN expression_var(cond.var)
        ELSE IF cond.cls = "NotVariableCondition"
        THEN <<"!">> \o expression_var(cond.var)
        ELSE IF cond.cls = "TrueFalseCondition"
        THEN (IF cond.value = "true" THEN <<"t", "r", "u", "e">>
              ELSE <<"f", "a", "l", "s", "e">>)
        ELSE expression_var(cond.left) \o <<" ">> \o relop(cond.operator)
                 \o <<" ">> \o expression_number(cond.right))

RECURSIVE format_condition_from(_, _, _)
format_condition_from(conditions, i, code) ==
    IF i > Len(conditions) THEN code
    ELSE format_condition_from(conditions, i + 1,
                               code \o format_one(conditions[i]))

format_condition(conditions) == format_condition_from(conditions, 1, <<>>)

\* ------------------------------------------------------------------------
\* format_condition on its own: a list of conditions is drawn, the first
\* one INITIAL and the others linked by AND or OR, with a value of the user
\* variable and of the temporary; the list and its inverse are formatted
\* ------------------------------------------------------------------------
FormatAtoms(type) ==
    {Condition(UserVar, "<", 1, type), Condition(UserVar, "<>", 0, type),
     VariableCondition(get_temp_name(0), type),
     NotVariableCondition(get_temp_name(0), type),
     TrueFalseCondition("false", type)}

FormatLists ==
    UNION {{list \in [1..k -> FormatAtoms(INITIAL) \cup FormatAtoms(AND)
                                  \cup FormatAtoms(OR)] :
                \A i \in 1..k : (list[i].type = INITIAL) <=> (i = 1)} :
           k \in 1..MaxFormatConditions}

InitFormat ==
    /\ Idle
    /\ pc = "format"
    /\ args \in FormatLists \X (0..1) \X SUBSET {get_temp_name(0)}
    /\ result = <<>>

\* format_condition(conditions) and
\* format_condition(invert_conditions(conditions))
Format ==
    /\ pc = "format"
    /\ result' = <<format_condition(args[1]),
                   format_condition(invert_conditions(args[1]))>>
    /\ pc' = "formatted"
    /\ UNCHANGED <<statements, TEMP_VAR_NUM, raised, input, issued, calls,
                   iterations, last_case, last_context, args>>

SpecFormat == InitFormat /\ [][Format]_vars
\* ------------------------------------------------------------------------
\* Properties
\* ------------------------------------------------------------------------
GotoCount(c) == CountKind(statements[c], "Goto")

\* C1: when eliminate_goto has returned, no context of the program holds a
\* Goto at any depth
C1_NoGotoOnReturn ==
    pc = "returned" => \A c \in Contexts : GotoCount(c) = 0

\* a call returned after two iterations or more on a program with two Gotos
\* that have the same target
C1_Witness ==
    /\ pc = "returned"
    /\ calls = 1
    /\ iterations >= 2
    /\ \E c \in Contexts :
           /\ Len(TargetsOf(input[c])) = 2
           /\ TargetsOf(input[c])[1] = TargetsOf(input[c])[2]



\* C2: when eliminate_goto has returned, every context whose input, run with
\* jump semantics, halts within MaxSteps steps has an output that halts too
\* (within MaxTargetSteps steps) and prints the same sequence
C2_SameBehaviour ==
    pc = "returned" /\ calls = 1 =>
        \A c \in Contexts :
            Execute(input[c], MaxSteps).status = "halt" =>
                Execute(statements[c], MaxTargetSteps)
                    = Execute(input[c], MaxSteps)

TotalGotos == GotoCount("main") + GotoCount("100")

\* C3: a driver iteration that completes never adds a Goto; one of case 1.1,
\* 1.2, 2.1, 3.1, 3.2 or 4.1 removes exactly one Goto; the iteration that
\* follows one of case 2.2 or 4.2 removes one Goto (so that the loop runs out
\* of Gotos and returns)
C3_GotosDecrease ==
    [][iterations' = iterations + 1 /\ pc' = "loop" =>
           /\ TotalGotos' <= TotalGotos
           /\ last_case' \in {"1.1", "1.2", "2.1", "3.1", "3.2", "4.1"}
                  => TotalGotos' = TotalGotos - 1
           /\ last_case \in {"2.2", "4.2"} => TotalGotos' = TotalGotos - 1]_vars

\* C4: after every driver iteration the target of every Goto of a context is
\* the label of a statement of that context
C4_TargetsResolve ==
    pc = "loop" /\ iterations > 0 =>
        \A c \in Contexts : TargetsResolve(statements[c])

NoDuplicate(s) == \A i, j \in 1..Len(s) : s[i] = s[j] => i = j

\* the labels of the program when the list of context c is list
ProgramLabels(c, list) ==
    LabelsOf(IF c = "main" THEN list ELSE statements["main"])
        \o LabelsOf(IF c = "100" THEN list ELSE statements["100"])

\* C5: no two statements of the program carry the same label (None aside),
\* neither after a driver iteration nor when find_goto has wrapped the bare
\* Goto it found
C5_UniqueLabels ==
    /\ pc \in {"loop", "returned"} =>
           NoDuplicate(ProgramLabels("main", statements["main"]))
    /\ pc = "loop" /\ Found =>
           NoDuplicate(ProgramLabels(FirstGotoContext, CurrentPair.statements))

\* C6: the context keys never change, and a step changes the list of no
\* context but the first one, in the order of the program, that holds a Goto
C6_ContextFrame ==
    [][/\ DOMAIN statements' = DOMAIN statements
       /\ \A c \in Contexts :
              statements'[c] # statements[c] =>
                  Found /\ c = FirstGotoContext]_vars

\* a call returned after iterations in both contexts, the last one in the
\* second context while the list of the first one is not empty
C6_Witness ==
    /\ pc = "returned" /\ calls = 1 /\ last_context = "100"
    /\ CountKind(input["main"], "Goto") > 0
    /\ CountKind(input["100"], "Goto") > 0
    /\ statements["100"] # input["100"]
    /\ Len(statements["main"]) > 0

\* the number a temporary's name stands for: its decimal digits read from
\* the left, -1 if name[i..] holds another character
RECURSIVE NumberOf(_, _, _)
NumberOf(name, i, n) ==
    IF i > Len(name) THEN n
    ELSE IF \E d \in 0..9 : Digit[d + 1] = name[i]
    THEN NumberOf(name, i + 1,
                  10 * n + (CHOOSE d \in 0..9 : Digit[d + 1] = name[i]))
    ELSE 0 - 1

\* C7: the k-th temporary of a call is named t<k>, a "t" and the decimal
\* digits of k without leading zero; no name is issued twice; the counter
\* holds the number of names issued in the call, whatever it held before
C7_TemporaryNames ==
    /\ \A k \in 1..Len(issued) :
           /\ Len(issued[k]) >= 2
           /\ issued[k][1] = "t"
           /\ issued[k][2] # "0"
           /\ NumberOf(issued[k], 2, 0) = k
    /\ NoDuplicate(issued)
    /\ pc # "entry" => TEMP_VAR_NUM = Len(issued)

\* a call has issued two temporaries
C7_Witness ==
    pc = "returned" /\ Len(issued) = 2 /\ issued[1] # issued[2]

\* C8: a call on a program without Goto returns the program it got and
\* issues no temporary
C8_Idempotent ==
    (pc = "returned" /\ \A c \in Contexts : CountKind(input[c], "Goto") = 0)
        => statements = input /\ issued = <<>>

\* the second call has returned, on an output of the first call that holds
\* a Loop
C8_Witness ==
    /\ pc = "returned" /\ calls = 2
    /\ \E c \in Contexts :
           CountKind(input[c], "Loop") > 0

\* the statement at path G comes before the one at path L in the program:
\* at the first index where the paths differ G holds the smaller index (of
\* two statements one of which encloses the other, the inner one is not
\* taken to come first, and neither is the outer one)
ComesBefore(G, L) ==
    \E i \in 1..Min(Len(G), Len(L)) :
        G[i] < L[i] /\ \A j \in 1..(i - 1) : G[j] = L[j]

\* the case of a pair with goto path G and label path L
CaseOf(G, L) ==
    LET family ==
            IF Len(G) = Len(L) /\ DropLast(G) = DropLast(L) THEN "1"
            ELSE IF Len(L) > Len(G) /\ SubSeq(L, 1, Len(G) - 1) = DropLast(G)
            THEN "2"
            ELSE IF Len(G) > Len(L) /\ SubSeq(G, 1, Len(L) - 1) = DropLast(L)
            THEN "3"
            ELSE "4"
    IN  <<family, IF ComesBefore(G, L) THEN "1" ELSE "2">>

\* C9: classify returns one of the eight labels, the family 1 to 4 by the
\* lengths and the enclosing blocks of the two paths, the suffix .1 exactly
\* when the goto comes before the label
C9_ClassifyCases ==
    pc = "classified" =>
        /\ result \in {"1.1", "1.2", "2.1", "2.2", "3.1", "3.2", "4.1", "4.2"}
        /\ result = CASE CaseOf(args[1], args[2]) = <<"1", "1">> -> "1.1"
                      [] CaseOf(args[1], args[2]) = <<"1", "2">> -> "1.2"
                      [] CaseOf(args[1], args[2]) = <<"2", "1">> -> "2.1"
                      [] CaseOf(args[1], args[2]) = <<"2", "2">> -> "2.2"
                      [] CaseOf(args[1], args[2]) = <<"3", "1">> -> "3.1"
                      [] CaseOf(args[1], args[2]) = <<"3", "2">> -> "3.2"
                      [] CaseOf(args[1], args[2]) = <<"4", "1">> -> "4.1"
                      [] CaseOf(args[1], args[2]) = <<"4", "2">> -> "4.2"

\* the relation that holds exactly when the given one does not
Complement(operator) ==
    CASE operator = "=" -> "<>"
      [] operator = "<>" -> "="
      [] operator = "<" -> ">="
      [] operator = ">=" -> "<"
      [] operator = ">" -> "<="
      [] operator = "<=" -> ">"

\* C10: invert_conditions maps each relation of a list, in order and with
\* its operands, to the complementary relation with AND and OR swapped and
\* INITIAL kept; applied twice it gives back the list
C10_InvertConditions ==
    /\ pc = "inverted" =>
           /\ Len(result) = Len(args)
           /\ \A i \in 1..Len(args) :
                  /\ result[i].cls = "Condition"
                  /\ result[i].left = args[i].left
                  /\ result[i].right = args[i].right
                  /\ result[i].operator = Complement(args[i].operator)
                  /\ result[i].type =
                         (CASE args[i].type = AND -> OR
                            [] args[i].type = OR -> AND
                            [] args[i].type = INITIAL -> INITIAL)
    /\ pc = "inverted twice" => result = args

\* a list of two relations with different operators and operands, the second
\* linked by OR, has been inverted twice
C10_Witness ==
    /\ pc = "inverted twice"
    /\ Len(args) = 2
    /\ args[1].operator = "<=" /\ args[1].right = 0 /\ args[1].type = INITIAL
    /\ args[2].operator = "=" /\ args[2].right = 1 /\ args[2].type = OR

\* the first Goto of a list, in pre-order, has a target that no statement of
\* the list carries
FirstTargetMissing(list) ==
    /\ Len(TargetsOf(list)) > 0
    /\ \A k \in 1..Len(LabelsOf(list)) : LabelsOf(list)[k] # TargetsOf(list)[1]

\* C11: when the first Goto of the first context that holds one targets a
\* label that no statement of that context carries, the step of the driver
\* ends the call with a GotoEliminationError: it neither goes on nor returns
\* nor raises an exception of another class
C11_MissingLabelError ==
    [][pc = "loop" /\ Found /\ FirstTargetMissing(statements[FirstGotoContext])
           => pc' = "raised" /\ raised' = "GotoEliminationError"]_vars

RECURSIVE FirstGotoPath(_, _)
\* the path of the first Goto of list[i..] in pre-order, <<>> if there is
\* none (i counts from 1, the indices of the path from 0)
FirstGotoPath(list, i) ==
    IF i > Len(list) THEN <<>>
    ELSE IF list[i].kind = "Goto" THEN <<i - 1>>
    ELSE IF CountKind(list[i].statements, "Goto") > 0
    THEN <<i - 1>> \o FirstGotoPath(list[i].statements, 1)
    ELSE FirstGotoPath(list, i + 1)

\* the pair fp was found in context c: c is the first context of the
\* program that holds a Goto, the goto path leads to the block whose first
\* statement is the first Goto of c in pre-order, and the label path leads
\* to a statement that carries the target of that Goto, both in the list as
\* it is now
IsFirstPair(c, fp) ==
    /\ \E k \in 1..Len(ContextOrder) :
           /\ ContextOrder[k] = c
           /\ CountKind(statements[c], "Goto") > 0
           /\ \A j \in 1..(k - 1) :
                  CountKind(statements[ContextOrder[j]], "Goto") = 0
    /\ Ok(fp) =>
           /\ fp.goto_path \o <<0>> = FirstGotoPath(fp.statements, 1)
           /\ Len(fp.label_path) > 0
           /\ StmtAt(fp.statements, fp.label_path).label
                  = StmtAt(fp.statements, fp.goto_path \o <<0>>).target_label

\* C12: the pair of a driver iteration is the one of the first Goto, in
\* pre-order, of the first context that holds a Goto, with paths that are
\* valid in the lists as the earlier iterations left them; an iteration
\* dispatches one case, in that context
C12_FirstPairAfresh ==
    /\ pc = "loop" /\ Found => IsFirstPair(FirstGotoContext, CurrentPair)
    /\ pc = "loop" /\ ~Found =>
           \A c \in Contexts : CountKind(statements[c], "Goto") = 0

\* the third iteration of a call is about to rewrite a pair of the second
\* context, in a list that earlier iterations have changed
C12_Witness ==
    /\ pc = "loop" /\ iterations = 2 /\ Found
    /\ FirstGotoContext = "100" /\ last_context = "100"
    /\ statements["100"] # input["100"]
    /\ Ok(CurrentPair)
    /\ Len(CurrentPair.goto_path) = 2

\* the values and types of the tokens that are not comments, in order
Significant(tokens) ==
    LET kept == SelectSeq(tokens, LAMBDA t : t.type # "COMMENT")
    IN  [k \in 1..Len(kept) |-> <<kept[k].value, kept[k].type>>]

\* C13: the lexer takes as comment the characters from a REM up to the end
\* of the line of that REM and no more, whether text follows the REM on its
\* line or not: the tokens that are not comments are those of the text
\* without its comments, none of a later line being lost
C13_CommentToEndOfLine ==
    pc = "lexed" =>
        /\ result[1].err = ""
        /\ Significant(result[1].tokens) = Significant(result[2].tokens)

\* the index from the left at which two paths differ first, 0 if one of
\* them is a prefix of the other
FirstDifference(G, L) ==
    IF \E i \in 1..Min(Len(G), Len(L)) : G[i] # L[i]
    THEN CHOOSE i \in 1..Min(Len(G), Len(L)) :
             G[i] # L[i] /\ \A j \in 1..(i - 1) : G[j] = L[j]
    ELSE 0

\* classify has taken the goto to be before the label
TakenAsBefore == result \in {"1.1", "2.1", "3.1", "4.1"}

WithWrapped(list, path, label) ==
    LET block == BlockAt(list, DropLast(path))
    IN  SetBlockAt(list, DropLast(path),
                   PySet(block, Last(path),
                         If(label, <<TrueFalseCondition("true", INITIAL)>>,
                            <<PyGet(block, Last(path))>>)))

\* find_pair has made, of the list old, the list new with the goto path G:
\* G leads to an If whose body is one Goto, and new is old, the Goto being
\* the only statement of its list, or new is old with the bare Goto at G
\* wrapped, the Goto having siblings
IsConditionalGoto(old, new, G) ==
    /\ Len(G) > 0
    /\ StmtAt(new, G).kind = "If"
    /\ Len(StmtAt(new, G).statements) = 1
    /\ StmtAt(new, G).statements[1].kind = "Goto"
    /\ \/ new = old
       \/ /\ StmtAt(old, G).kind = "Goto"
          /\ Len(BlockAt(old, DropLast(G))) > 1
          /\ new = WithWrapped(old, G, StmtAt(new, G).label)

\* C15: when find_pair returns a pair its goto path leads to an If whose
\* body is the Goto alone: a bare Goto with siblings has been wrapped at its
\* index into an If with the one condition true, a Goto that is alone in
\* its list is left as it is, and nothing else of the list has changed
C15_ConditionalGoto ==
    pc = "loop" /\ Found /\ Ok(CurrentPair) =>
        IsConditionalGoto(statements[FirstGotoContext],
                          CurrentPair.statements, CurrentPair.goto_path)

\* the variables that the conditions of a list refer to
CondVars(conds) ==
    {conds[k].var :
         k \in {j \in 1..Len(conds) :
                    conds[j].cls \in {"VariableCondition",
                                      "NotVariableCondition"}}}

RECURSIVE VarsOf(_)
\* the variables that a list of statements assigns or tests
VarsOf(list) ==
    IF Len(list) = 0 THEN {}
    ELSE LET s == Head(list)
         IN  CondVars(s.conditions)
                 \cup (IF s.kind = "Let"
                       THEN {s.lval} \cup CondVars(s.rval.conditions)
                       ELSE {})
                 \cup VarsOf(s.statements) \cup VarsOf(Tail(list))

\* goto_temp_var has made the pair after of the pair before, whose goto
\* path leads to the If goto_if at index g of block
TempVarIntroduced(before, after, block, g, goto_if) ==
    IF Len(goto_if.conditions) > 1
           \/ goto_if.conditions[1].cls # "VariableCondition"
    THEN LET t == after.temp_name
         IN  /\ Ok(after)
             /\ t \notin VarsOf(before.statements)
             /\ t \notin Range(before.issued)
             /\ after.statements =
                    SetBlockAt(before.statements, DropLast(before.goto_path),
                        SubSeq(block, 1, g)
                            \o <<Let(None, t,
                                     BooleanExpression(goto_if.conditions)),
                                 If(goto_if.label,
                                    <<VariableCondition(t, INITIAL)>>,
                                    goto_if.statements)>>
                            \o SubSeq(block, g + 2, Len(block)))
             /\ StmtAt(after.statements, after.goto_path).conditions
                    = <<VariableCondition(t, INITIAL)>>
    ELSE /\ Ok(after)
         /\ after.statements = before.statements
         /\ after.goto_path = before.goto_path
         /\ after.label_path = before.label_path
         /\ after.issued = before.issued
         /\ after.temp_name = goto_if.conditions[1].var

\* C16: goto_temp_var, on a goto whose If has several conditions or one
\* condition that is not a variable reference, puts LET t = the conditions
\* of the If, t a fresh name, at the index of the If and the If, with its
\* label and body and the one condition t, right after it, and changes
\* nothing else; on an If whose one condition is a variable reference it
\* changes nothing and returns the name of that variable
C16_GotoTempVar ==
    pc \in {"temp", "temp again"} /\ Len(result[1].goto_path) > 0 =>
        LET G == result[1].goto_path
            block == BlockAt(result[1].statements, DropLast(G))
        IN  PyGet(block, Last(G)).kind = "If" =>
                TempVarIntroduced(result[1], result[2], block, Last(G),
                                  PyGet(block, Last(G)))

\* goto_temp_var has introduced t1 for a goto in a nested block whose If
\* had two conditions, and the second call has returned t1 and left the
\* list as it was
C16_Witness ==
    /\ pc = "temp again"
    /\ Len(result[1].goto_path) = 2
    /\ result[1].issued = <<get_temp_name(0)>>
    /\ result[2].temp_name = get_temp_name(0)
    /\ result[2].statements = result[1].statements
    /\ Last(result[1].goto_path) > 0
    /\ LET block == BlockAt(result[1].statements,
                            DropLast(result[1].goto_path))
       IN  Len(PyGet(block, Last(result[1].goto_path) - 1).rval.conditions) = 2

\* what case 1.1 is to make of block B, the If of the goto at index g and
\* the label statement at index l, g < l (indices from 0)
Block_1_1(B, g, l) ==
    IF l > g + 1
    THEN SubSeq(B, 1, g)
             \o <<If(B[g + 1].label, invert_conditions(B[g + 1].conditions),
                     SubSeq(B, g + 2, l))>>
             \o SubSeq(B, l + 1, Len(B))
    ELSE SubSeq(B, 1, g) \o SubSeq(B, g + 2, Len(B))

\* C17: an iteration of case 1.1, the goto at index g and the label at
\* index l > g of the same block B, leaves the list with B[0..g), then one
\* If with the label of the goto's If, its conditions inverted and B(g..l)
\* as body, then B[l..], when l > g + 1, and with B without the goto when
\* l = g + 1; nothing else changes
C17_Case_1_1 ==
    [][iterations' = iterations + 1 /\ last_case' = "1.1" =>
           LET fp == CurrentPair
               g == Last(fp.goto_path)
               l == Last(fp.label_path)
           IN  /\ pc' = "loop"
               /\ g < l
               /\ statements' =
                      [statements EXCEPT ![FirstGotoContext] =
                          SetBlockAt(fp.statements, DropLast(fp.goto_path),
                              Block_1_1(BlockAt(fp.statements,
                                                DropLast(fp.goto_path)),
                                        g, l))]]_vars

\* the first iteration was of case 1.1, in the body of an If, and has put
\* statements into a new If
C17_Witness ==
    /\ pc = "loop" /\ iterations = 1 /\ last_case = "1.1"
    /\ last_context = "main"
    /\ Len(input["main"]) = 1
    /\ CountKind(input["main"], "If") = 1
    /\ CountKind(statements["main"], "If") = 2
    /\ CountKind(statements["main"], "Goto") = 0

\* what case 1.2 is to make of block B, the label statement at index l and
\* the If of the goto at index g, l < g (indices from 0)
Block_1_2(B, g, l) ==
    SubSeq(B, 1, l)
        \o <<Loop(None, B[g + 1].conditions, SubSeq(B, l + 1, g))>>
        \o SubSeq(B, g + 2, Len(B))

\* C18: an iteration of case 1.2, the label at index l and the goto at
\* index g > l of the same block B, leaves the list with B[0..l), then one
\* Loop with the conditions of the goto's If as they are and B[l..g) as
\* body, the label statement first, then B(g..]: the goto is gone, no
\* statement of the span is left outside the Loop and nothing else changes
C18_Case_1_2 ==
    [][(/\ iterations' = iterations + 1
        /\ last_case' = "1.2"
        /\ Last(CurrentPair.goto_path) > Last(CurrentPair.label_path)) =>
           LET fp == CurrentPair
               g == Last(fp.goto_path)
               l == Last(fp.label_path)
           IN  /\ pc' = "loop"
               /\ statements' =
                      [statements EXCEPT ![FirstGotoContext] =
                          SetBlockAt(fp.statements, DropLast(fp.goto_path),
                              Block_1_2(BlockAt(fp.statements,
                                                DropLast(fp.goto_path)),
                                        g, l))]]_vars

\* the first iteration was of case 1.2, in the body of an If, and has put
\* two statements into a Loop
C18_Witness ==
    /\ pc = "loop" /\ iterations = 1 /\ last_case = "1.2"
    /\ last_context = "main"
    /\ Len(input["main"]) = 1
    /\ CountKind(input["main"], "If") = 1
    /\ CountKind(statements["main"], "Goto") = 0
    /\ \E k \in 1..Len(statements["main"][1].statements) :
           /\ statements["main"][1].statements[k].kind = "Loop"
           /\ Len(statements["main"][1].statements[k].statements) = 2

\* the paths of the blocks that lead from the block of the goto down to
\* the label statement of a pair of case 2.1
BlocksToLabel(fp) ==
    {SubSeq(fp.label_path, 1, k) :
         k \in Len(fp.goto_path)..(Len(fp.label_path) - 1)}

\* the If that stood at path p of the list old stands, with its label, in
\* the list new with one more condition, the reference to a variable linked
\* by OR, at the end of its conditions
HasTempAppended(old, new, p) ==
    LET X == StmtAt(old, p)
        at == find_label(X.label, new)
    IN  /\ Ok(at) /\ at.found
        /\ \E t \in VarsOf(new) :
               StmtAt(new, at.path).conditions
                   = X.conditions \o <<VariableCondition(t, OR)>>

\* C19: the first iteration of a call, when it is of case 2.1 and every
\* block from the block of the goto down to the label is an If, removes
\* the Goto and leaves every one of these Ifs with its conditions followed
\* by one more, the temporary of the goto linked by OR
C19_Case_2_1 ==
    [][(/\ iterations = 0
        /\ iterations' = 1
        /\ last_case' = "2.1"
        /\ \A p \in BlocksToLabel(CurrentPair) :
               StmtAt(CurrentPair.statements, p).kind = "If") =>
           /\ pc' = "loop"
           /\ CountKind(statements'[FirstGotoContext], "Goto")
                  = CountKind(statements[FirstGotoContext], "Goto") - 1
           /\ \A p \in BlocksToLabel(CurrentPair) :
                  HasTempAppended(CurrentPair.statements,
                                  statements'[FirstGotoContext], p)]_vars

\* LET t = false
ResetOf(t) ==
    Let(None, t, BooleanExpression(<<TrueFalseCondition("false", INITIAL)>>))

RECURSIVE CountResets(_)
\* the number of statements LET t = false of a list, for any t
CountResets(list) ==
    IF Len(list) = 0 THEN 0
    ELSE LET s == Head(list)
         IN  (IF s.kind = "Let" /\ s = ResetOf(s.lval) THEN 1 ELSE 0)
                 + CountResets(s.statements) + CountResets(Tail(list))

\* in the list new the statement that carries the label target is in the
\* body of a Loop, right after a LET t = false, and new holds one more
\* LET t = false than the list old
ResetBeforeLabel(old, new, target) ==
    LET at == find_label(target, new)
    IN  /\ Ok(at) /\ at.found
        /\ Len(at.path) > 1
        /\ StmtAt(new, DropLast(at.path)).kind = "Loop"
        /\ Last(at.path) > 0
        /\ LET before == StmtAt(new, SetLast(at.path, Last(at.path) - 1))
           IN  before.kind = "Let" /\ before = ResetOf(before.lval)
        /\ CountResets(new) = CountResets(old) + 1

\* C20: an iteration of case 2.1 whose label statement is in the body of a
\* Loop leaves, in the body of that Loop, LET t = false right before the
\* label statement, and puts that statement nowhere else
C20_Case_2_1_Loop ==
    [][(/\ iterations' = iterations + 1
        /\ last_case' = "2.1"
        /\ StmtAt(CurrentPair.statements,
                  DropLast(CurrentPair.label_path)).kind = "Loop") =>
           /\ pc' = "loop"
           /\ ResetBeforeLabel(
                  CurrentPair.statements, statements'[FirstGotoContext],
                  StmtAt(CurrentPair.statements,
                         CurrentPair.goto_path \o <<0>>).target_label)]_vars

\* what case 2.2 is to make of block B, the If of the goto at index g and
\* the child that holds the label at index c, c < g (indices from 0): the
\* goto's If tests the temporary t, which a LET right before the If has set
\* when the If had other conditions
Block_2_2(B, g, c) ==
    LET conds == B[g + 1].conditions
        needs == Len(conds) > 1 \/ conds[1].cls # "VariableCondition"
        t == IF needs THEN get_temp_name(TEMP_VAR_NUM) ELSE conds[1].var
        goto_if == If(B[g + 1].label, <<VariableCondition(t, INITIAL)>>,
                      B[g + 1].statements)
        between == SubSeq(B, c + 1, g)
                       \o (IF needs
                           THEN <<Let(None, t, BooleanExpression(conds))>>
                           ELSE <<>>)
    IN  SubSeq(B, 1, c)
            \o <<Loop(None, <<VariableCondition(t, INITIAL)>>,
                      <<goto_if>> \o between)>>
            \o SubSeq(B, g + 2, Len(B))

\* C21: an iteration of case 2.2, on a pair whose goto path leads to an If,
\* leaves the block B of the goto with B[0..c), then one Loop with the one
\* condition t whose body is the goto's If, the child at c that holds the
\* label and the statements that stood between the child and the goto,
\* then B(g..]; and the iteration after one of case 2.2 is of case 2.1, in
\* the same context, and removes the Goto
C21_Case_2_2 ==
    [][/\ (/\ iterations' = iterations + 1
           /\ last_case' = "2.2"
           /\ Len(CurrentPair.goto_path) > 0) =>
              LET fp == CurrentPair
                  g == Last(fp.goto_path)
                  c == fp.label_path[Len(fp.goto_path)]
              IN  /\ pc' = "loop"
                  /\ statements' =
                         [statements EXCEPT ![FirstGotoContext] =
                             SetBlockAt(fp.statements, DropLast(fp.goto_path),
                                 Block_2_2(BlockAt(fp.statements,
                                                   DropLast(fp.goto_path)),
                                           g, c))]
       /\ (/\ iterations' = iterations + 1
           /\ last_case = "2.2"
           /\ iterations > 0) =>
              /\ last_case' = "2.1"
              /\ last_context' = last_context
              /\ pc' = "loop"
              /\ TotalGotos' = TotalGotos - 1]_vars

\* move_up_a_block has made the pair q of the pair p, whose goto path leads
\* to the If of the goto in a block that the statement at the path without
\* its last index owns
MovedFrom == result[1]
MovedTo == result[2]
GotoBlockPath == DropLast(MovedFrom.goto_path)
OwnerOfGoto == StmtAt(MovedFrom.statements, GotoBlockPath)

\* the list after a move up: the block of the goto becomes body and the
\* goto's If stands in the parent block right after the owner of body
AfterMoveUp(body) ==
    LET p == MovedFrom
        g == Last(p.goto_path)
        owner == Last(GotoBlockPath)
        withBody == SetBlockAt(p.statements, GotoBlockPath, body)
        parent == BlockAt(withBody, DropLast(GotoBlockPath))
    IN  SetBlockAt(withBody, DropLast(GotoBlockPath),
                   SubSeq(parent, 1, owner + 1)
                       \o <<StmtAt(p.statements, p.goto_path)>>
                       \o SubSeq(parent, owner + 2, Len(parent)))

\* C22: move_up_a_block on a goto whose block is the body of a Loop leaves,
\* at the index of the goto in that body, an If with the one condition t
\* and the body [Break], leaves the other statements of the body as they
\* are and puts the goto's If into the parent block right after the Loop
C22_MoveUpFromLoop ==
    pc = "moved" /\ Len(GotoBlockPath) > 0 /\ OwnerOfGoto.kind = "Loop" =>
        LET B == BlockAt(MovedFrom.statements, GotoBlockPath)
            g == Last(MovedFrom.goto_path)
        IN  /\ Ok(MovedTo)
            /\ MovedTo.statements =
                   AfterMoveUp([B EXCEPT ![g + 1] =
                                    If(None,
                                       <<VariableCondition(MovedFrom.temp_name,
                                                           INITIAL)>>,
                                       <<Break(None)>>)])

\* C23: move_up_a_block on a goto whose block is the body of an If leaves
\* the statements before the goto as they are, puts the statements after
\* the goto, in order, into one If with the one condition not t at the
\* index of the goto (and only deletes the goto when nothing follows it),
\* and puts the goto's If into the parent block right after the If it left
C23_MoveUpFromIf ==
    pc = "moved" /\ Len(GotoBlockPath) > 0 /\ OwnerOfGoto.kind = "If" =>
        LET B == BlockAt(MovedFrom.statements, GotoBlockPath)
            g == Last(MovedFrom.goto_path)
        IN  /\ Ok(MovedTo)
            /\ MovedTo.statements =
                   AfterMoveUp(
                       IF g + 1 < Len(B)
                       THEN SubSeq(B, 1, g)
                                \o <<If(None,
                                        <<NotVariableCondition(
                                              MovedFrom.temp_name, INITIAL)>>,
                                        SubSeq(B, g + 2, Len(B)))>>
                       ELSE SubSeq(B, 1, g))

\* the goto has been moved out of the body of an If in which a statement
\* of the program stood before it and another after it
C23_Witness ==
    /\ pc = "moved"
    /\ Len(GotoBlockPath) > 0
    /\ OwnerOfGoto.kind = "If"
    /\ LET B == BlockAt(MovedFrom.statements, GotoBlockPath)
           g == Last(MovedFrom.goto_path)
       IN  /\ g = 2
           /\ Len(B) = 4
           /\ B[1].kind = "Print"
           /\ B[4].kind = "Print"
    /\ Ok(MovedTo)
    /\ Len(BlockAt(MovedTo.statements, GotoBlockPath)) = 3

\* in the list new the statement that carries the label target is in the
\* body of a Loop whose one condition is a reference to a variable t, and
\* the statement right before it in that body is LET t = false
ResetInLoop(new, target) ==
    LET at == find_label(target, new)
    IN  /\ Ok(at) /\ at.found
        /\ Len(at.path) > 1
        /\ Last(at.path) > 0
        /\ LET loop == StmtAt(new, DropLast(at.path))
           IN  /\ loop.kind = "Loop"
               /\ Len(loop.conditions) = 1
               /\ loop.conditions[1].cls = "VariableCondition"
               /\ StmtAt(new, SetLast(at.path, Last(at.path) - 1))
                      = ResetOf(loop.conditions[1].var)

\* C24: an iteration of case 3.2 leaves the label statement in the Loop
\* that case 1.2 has built, a Loop whose one condition is the temporary t
\* of the goto, with LET t = false right before the label statement
C24_Case_3_2 ==
    [][(/\ iterations' = iterations + 1
        /\ last_case' = "3.2") =>
           /\ pc' = "loop"
           /\ ResetInLoop(
                  statements'[FirstGotoContext],
                  StmtAt(CurrentPair.statements,
                         CurrentPair.goto_path \o <<0>>).target_label)]_vars

RECURSIVE ValidPath(_, _)
\* every index of path is an index of the list it is applied to
ValidPath(list, path) ==
    /\ Len(path) > 0
    /\ Head(path) >= 0 /\ Head(path) < Len(list)
    /\ Len(path) = 1 \/ ValidPath(list[Head(path) + 1].statements, Tail(path))

\* the goto path of the pair p leads to an If whose body is one Goto and
\* the label path to a statement that carries the target of that Goto
PathsLocate(p) ==
    /\ ValidPath(p.statements, p.goto_path)
    /\ ValidPath(p.statements, p.label_path)
    /\ StmtAt(p.statements, p.goto_path).kind = "If"
    /\ Len(StmtAt(p.statements, p.goto_path).statements) = 1
    /\ StmtAt(p.statements, p.goto_path).statements[1].kind = "Goto"
    /\ HasLabel(StmtAt(p.statements, p.label_path))
    /\ StmtAt(p.statements, p.label_path).label
           = StmtAt(p.statements, p.goto_path).statements[1].target_label

RECURSIVE MovesLocate(_, _)
\* the paths of the pair locate the goto and the label after every
\* move_up_a_block of the while loop of algo_3 (case 3.x) or algo_4
\* (case 4.x), p being the pair before the first of them
MovesLocate(p, case) ==
    LET q == move_up_a_block(p, IsAfter(case))
        done == IF case \in {"3.1", "3.2"}
                THEN DropLast(q.label_path) = DropLast(q.goto_path)
                ELSE classify(q.goto_path, q.label_path) \in {"2.1", "2.2"}
    IN  Ok(q) => /\ PathsLocate(q)
                 /\ done \/ MovesLocate(q, case)

\* C25: for a pair of case 2.1, 3.1, 3.2, 4.1 or 4.2 whose paths locate
\* the goto and the label, the paths that goto_temp_var leaves locate them
\* too, and so do the paths after every move_up_a_block of cases 3.x and
\* 4.x
C25_PathMaintenance ==
    (/\ pc = "loop" /\ Found /\ Ok(CurrentPair)
     /\ classify(CurrentPair.goto_path, CurrentPair.label_path)
            \in {"2.1", "3.1", "3.2", "4.1", "4.2"}
     /\ PathsLocate(NewPair(CurrentPair))) =>
        LET case == classify(CurrentPair.goto_path, CurrentPair.label_path)
            p0 == goto_temp_var(NewPair(CurrentPair))
        IN  /\ Ok(p0)
            /\ PathsLocate(p0)
            /\ case # "2.1" => MovesLocate(p0, case)

RECURSIVE SplitOn(_, _, _)
\* the pieces of text between the occurrences of the separator sep, cur
\* being the piece under way
SplitOn(text, sep, cur) ==
    IF Len(text) = 0 THEN <<cur>>
    ELSE IF Len(text) >= Len(sep) /\ SubSeq(text, 1, Len(sep)) = sep
    THEN <<cur>> \o SplitOn(SubSeq(text, Len(sep) + 1, Len(text)), sep, <<>>)
    ELSE SplitOn(Tail(text), sep, Append(cur, Head(text)))

\* the value of a Rust operand of && and ||: true, false, state.x, !state.x
\* or state.x relop number, x being the user variable with value a or a
\* temporary that is true when it is in temps
RustOperand(text, a, temps) ==
    LET words == SplitOn(text, <<" ">>, <<>>)
        name(w) == SubSeq(w, 7, Len(w))
        number == NumberOf(words[3], 1, 0)
    IN  IF text = <<"t", "r", "u", "e">> THEN TRUE
        ELSE IF text = <<"f", "a", "l", "s", "e">> THEN FALSE
        ELSE IF Head(text) = "!" THEN name(Tail(text)) \notin temps
        ELSE IF Len(words) = 1 THEN name(text) \in temps
        ELSE CASE words[2] = <<"!", "=">> -> a # number
               [] words[2] = <<"=", "=">> -> a = number
               [] words[2] = <<"<">> -> a < number
               [] words[2] = <<">">> -> a > number
               [] words[2] = <<"<", "=">> -> a <= number
               [] words[2] = <<">", "=">> -> a >= number

\* the value of a Rust condition: && binds tighter than ||
RustValue(text, a, temps) ==
    LET disjuncts == SplitOn(text, <<" ", "|", "|", " ">>, <<>>)
        conjuncts(d) == SplitOn(d, <<" ", "&", "&", " ">>, <<>>)
    IN  \E i \in 1..Len(disjuncts) :
            \A j \in 1..Len(conjuncts(disjuncts[i])) :
                RustOperand(conjuncts(disjuncts[i])[j], a, temps)

\* C26: the text format_condition emits for a list of conditions, read as
\* Rust reads it, has the value of the list read from left to right, and
\* the text emitted for the inverse of the list has the opposite value
C26_FormatCondition ==
    pc = "formatted" =>
        /\ RustValue(result[1], args[2], args[3])
               = EvalFrom(args[1], 1, TRUE, args[2], args[3])
        /\ RustValue(result[2], args[2], args[3])
               = ~RustValue(result[1], args[2], args[3])

\* C27: a pair whose label path is a proper prefix of its goto path, the
\* label being on a block that encloses the goto, is classified 3.2
C27_EnclosingLabel ==
    (/\ pc = "classified"
     /\ Len(args[2]) < Len(args[1])
     /\ SubSeq(args[1], 1, Len(args[2])) = args[2]) => result = "3.2"

RECURSIVE OwnStatements(_)
\* the statements of the program in a list, in pre-order: the Prints, the
\* Ends and the LETs of an arithmetic expression, each with its label
OwnStatements(list) ==
    IF Len(list) = 0 THEN <<>>
    ELSE LET s == Head(list)
         IN  (IF \/ s.kind \in {"Print", "End"}
                 \/ s.kind = "Let" /\ s.rval.exp # "BooleanExpression"
              THEN <<s>> ELSE <<>>)
                 \o OwnStatements(s.statements) \o OwnStatements(Tail(list))

RECURSIVE OnlyRewriteNodes(_)
\* every node of the list is a statement of the program, a Goto, an If, a
\* Loop, a Break or a LET of a condition
OnlyRewriteNodes(list) ==
    \A k \in 1..Len(list) :
        /\ list[k].kind \in {"Print", "End", "Let", "Goto", "If", "Loop",
                             "Break"}
        /\ OnlyRewriteNodes(list[k].statements)

\* C28: a driver iteration that completes leaves, in every context, the
\* Prints, Ends and LETs of the program as they were, each once, with its
\* label and in the same pre-order, removes one Goto at most and leaves no
\* node but statements of the program, Gotos, Ifs, Loops, Breaks and LETs
\* of temporaries
C28_StatementsPreserved ==
    [][(iterations' = iterations + 1 /\ pc' = "loop") =>
           \A c \in Contexts :
               /\ OwnStatements(statements'[c]) = OwnStatements(statements[c])
               /\ CountKind(statements'[c], "Goto")
                      >= CountKind(statements[c], "Goto") - 1
               /\ OnlyRewriteNodes(statements[c])
                      => OnlyRewriteNodes(statements'[c])]_vars

\* the labels of the input of the call, context by context
InputLabels == LabelsOf(input["main"]) \o LabelsOf(input["100"])

\* C29: a call on a program in which no label occurs twice and every Goto
\* targets a label of its own context does not end with an exception
C29_NoException ==
    (/\ calls = 1
     /\ NoDuplicate(InputLabels)
     /\ \A c \in Contexts : TargetsResolve(input[c])) =>
        ~(pc = "raised" /\ raised # "ModelLimit")

\* the pair as case 1.1 or case 1.2 gets it: from the driver (cases 1.1 and
\* 1.2), after goto_temp_var and the while loop of case 2.1, or after
\* algo_3 (cases 3.1 and 3.2)
HandedPair(case, fp) ==
    IF case \in {"1.1", "1.2"} THEN NewPair(fp)
    ELSE IF case = "2.1"
    THEN LET p0 == goto_temp_var(NewPair(fp))
         IN  IF Ok(p0) THEN algo_2_1_loop(p0) ELSE p0
    ELSE algo_3(NewPair(fp), case = "3.2")

\* the steps before case 1.1 or case 1.2 did not raise: the rewrite runs on
\* the pair p (case 2.1 reads the label statement first)
Case_1_Runs(case, p) ==
    /\ Ok(p)
    /\ case = "2.1" =>
           Ok(StmtIn(p.statements, p.label_path,
                     get_block(p.statements, p.label_path)))

\* goto_path[:-1] = label_path[:-1], the goto index below the label index
\* for a forward jump and above it for a backward jump
SameBlockInOrder(case, p) ==
    /\ Len(p.goto_path) > 0
    /\ Len(p.label_path) > 0
    /\ DropLast(p.goto_path) = DropLast(p.label_path)
    /\ IF case \in {"1.2", "3.2"}
       THEN Last(p.goto_path) > Last(p.label_path)
       ELSE Last(p.goto_path) < Last(p.label_path)

\* the case of the pair the driver is about to dispatch
CurrentCase == classify(CurrentPair.goto_path, CurrentPair.label_path)

\* C30: whenever case 1.1 or case 1.2 runs, dispatched by the driver or as
\* the last step of case 2.1, 3.1 or 3.2, the paths of the pair it gets are
\* in the same block, the goto index smaller than the label index for
\* case 1.1 and larger for case 1.2
C30_SameBlock ==
    (/\ pc = "loop" /\ Found /\ Ok(CurrentPair)
     /\ iterations < MaxIterations
     /\ CurrentCase \in {"1.1", "1.2", "2.1", "3.1", "3.2"}
     /\ Case_1_Runs(CurrentCase, HandedPair(CurrentCase, CurrentPair))) =>
        SameBlockInOrder(CurrentCase, HandedPair(CurrentCase, CurrentPair))
====
